---- MODULE Spec2Model ----
(***************************************************************************)
(* TerminalChess: the board model, the move applier (ChessBoard.MovePiece), *)
(* the en-passant tracker, the move history and the UI handlers that drive  *)
(* them (cmd/main/main.go).  The rules library github.com/corentings/chess  *)
(* is the "oracle": it is modelled below (section ORACLE) by what its API   *)
(* does on the positions MovePiece hands it.                                *)
(***************************************************************************)
EXTENDS Integers, Sequences, FiniteSets, TLC

(***************************************************************************)
(* pkg/gui/gui.go: colours, piece types, pieces, boards                     *)
(***************************************************************************)
Black == 0
White == 1
Undefined == -1

King == 0
Queen == 1
Rook == 2
Bishop == 3
Knight == 4
Pawn == 5
Empty == -1

Idx == 0..7

Piece(c, t) == [Color |-> c, Type |-> t]

EmptyPiece == Piece(Undefined, Empty)

\* abs, gui.go 298-303
abs(x) == IF x < 0 THEN -x ELSE x

BackRank == <<Rook, Knight, Bishop, Queen, King, Bishop, Knight, Rook>>

\* NewChessBoard: rows 0/1 Black, rows 6/7 White, rows 2..5 Empty
NewChessBoard ==
  [i \in Idx |-> [j \in Idx |->
     CASE i = 0 -> Piece(Black, BackRank[j + 1])
       [] i = 1 -> Piece(Black, Pawn)
       [] i = 6 -> Piece(White, Pawn)
       [] i = 7 -> Piece(White, BackRank[j + 1])
       [] OTHER -> EmptyPiece]]

(***************************************************************************)
(* Text.  A string is a sequence of one-character strings.                  *)
(***************************************************************************)
FileChars == <<"a", "b", "c", "d", "e", "f", "g", "h">>

DigitChars == <<"0", "1", "2", "3", "4", "5", "6", "7", "8", "9">>

\* fmt.Sprintf("%d", n) for 0 <= n <= 9
Digit(n) == DigitChars[n + 1]

\* the letter ToFEN writes for a piece type (gui.go 421-434)
TypeLetter(t) ==
  CASE t = King -> "k" [] t = Queen -> "q" [] t = Rook -> "r"
    [] t = Bishop -> "b" [] t = Knight -> "n" [] t = Pawn -> "p"

\* a letter left in lower case
KeepCase(ch) == ch

\* c -= 32 on a lower-case letter (gui.go 435-437)
Upper(ch) ==
  CASE ch = "k" -> "K" [] ch = "q" -> "Q" [] ch = "r" -> "R"
    [] ch = "b" -> "B" [] ch = "n" -> "N" [] ch = "p" -> "P"

\* strings.Join / strings.Split on one separator character
RECURSIVE Join(_, _)
Join(parts, sep) ==
  IF parts = <<>> THEN <<>>
  ELSE IF Len(parts) = 1 THEN parts[1]
  ELSE parts[1] \o <<sep>> \o Join(Tail(parts), sep)

RECURSIVE SplitFrom(_, _, _, _)
SplitFrom(s, sep, k, cur) ==
  IF k > Len(s) THEN <<cur>>
  ELSE IF s[k] = sep THEN <<cur>> \o SplitFrom(s, sep, k + 1, <<>>)
  ELSE SplitFrom(s, sep, k + 1, Append(cur, s[k]))

Split(s, sep) == SplitFrom(s, sep, 1, <<>>)

(***************************************************************************)
(* ChessBoard.ToFEN, gui.go 407-481                                         *)
(***************************************************************************)
\* the inner loop over j of one rank, with the running count of empties
RECURSIVE RankFEN(_, _, _, _)
RankFEN(b, i, j, empty) ==
  IF j > 7 THEN (IF empty > 0 THEN <<Digit(empty)>> ELSE <<>>)
  ELSE LET p == b[i][j] IN
       IF p.Type = Empty THEN RankFEN(b, i, j + 1, empty + 1)
       ELSE (IF empty > 0 THEN <<Digit(empty)>> ELSE <<>>)
            \o <<IF p.Color = White THEN Upper(TypeLetter(p.Type))
                 ELSE TypeLetter(p.Type)>>
            \o RankFEN(b, i, j + 1, 0)

\* a placement written last row first
PlacementFENReversed(b) ==
  Join(<<RankFEN(b, 7, 0, 0), RankFEN(b, 6, 0, 0), RankFEN(b, 5, 0, 0), RankFEN(b, 4, 0, 0),
         RankFEN(b, 3, 0, 0), RankFEN(b, 2, 0, 0), RankFEN(b, 1, 0, 0), RankFEN(b, 0, 0, 0)>>,
       "/")

PlacementFEN(b) ==
  Join(<<RankFEN(b, 0, 0, 0), RankFEN(b, 1, 0, 0), RankFEN(b, 2, 0, 0), RankFEN(b, 3, 0, 0),
         RankFEN(b, 4, 0, 0), RankFEN(b, 5, 0, 0), RankFEN(b, 6, 0, 0), RankFEN(b, 7, 0, 0)>>,
       "/")

\* castling rights from the piece types on the home squares, whatever their colour
CastleFENAnyColour(b) ==
  LET castle ==
        (IF b[7][4].Type = King /\ b[7][7].Type = Rook THEN <<"K">> ELSE <<>>)
        \o (IF b[7][4].Type = King /\ b[7][0].Type = Rook THEN <<"Q">> ELSE <<>>)
        \o (IF b[0][4].Type = King /\ b[0][7].Type = Rook THEN <<"k">> ELSE <<>>)
        \o (IF b[0][4].Type = King /\ b[0][0].Type = Rook THEN <<"q">> ELSE <<>>)
  IN IF castle = <<>> THEN <<"-">> ELSE castle

\* castling rights from the king/rook home squares (gui.go 453-473)
CastleFEN(b) ==
  LET wk == b[7][4].Type = King /\ b[7][4].Color = White
      bk == b[0][4].Type = King /\ b[0][4].Color = Black
      castle ==
        (IF wk /\ b[7][7].Type = Rook /\ b[7][7].Color = White THEN <<"K">> ELSE <<>>)
        \o (IF wk /\ b[7][0].Type = Rook /\ b[7][0].Color = White THEN <<"Q">> ELSE <<>>)
        \o (IF bk /\ b[0][7].Type = Rook /\ b[0][7].Color = Black THEN <<"k">> ELSE <<>>)
        \o (IF bk /\ b[0][0].Type = Rook /\ b[0][0].Color = Black THEN <<"q">> ELSE <<>>)
  IN IF castle = <<>> THEN <<"-">> ELSE castle

\* an en-passant field that is always "-"
EnPassantFENNone(epRow, epCol) == <<"-">>

\* the en-passant field from the process-wide target (gui.go 474-478)
EnPassantFEN(epRow, epCol) ==
  IF epRow >= 0 /\ epCol >= 0 /\ epRow < 8 /\ epCol < 8
  THEN <<FileChars[epCol + 1], Digit(8 - epRow)>>
  ELSE <<"-">>

ToFEN(b, turn, epRow, epCol) ==
  PlacementFEN(b) \o <<" ">> \o <<IF turn = Black THEN "b" ELSE "w">> \o <<" ">>
  \o CastleFEN(b) \o <<" ">> \o EnPassantFEN(epRow, epCol) \o <<" ", "0", " ", "1">>

(***************************************************************************)
(* ORACLE: github.com/corentings/chess as MovePiece uses it.  Squares are   *)
(* chess.Square values, A1 = 0 .. H8 = 63 (file = s % 8, rank = s \div 8).  *)
(***************************************************************************)
Squares == 0..63

NoSquare == -1

FileOf(s) == s % 8

RankOf(s) == s \div 8

SquareAt(file, rank) == rank * 8 + file

OPiece(c, t) == [c |-> c, t |-> t]

NoPiece == OPiece("-", "-")

Other(c) == IF c = "w" THEN "b" ELSE "w"

sign(x) == IF x < 0 THEN -1 ELSE IF x > 0 THEN 1 ELSE 0

Max(a, b) == IF a > b THEN a ELSE b

\* index of ch in the sequence s, 0 when it does not occur
IndexOf(s, ch) == IF \E k \in 1..Len(s) : s[k] = ch
                  THEN CHOOSE k \in 1..Len(s) : s[k] = ch ELSE 0

\* ---- chess.FEN: decoding the six fields of a FEN string ----
FenPieceLetters == <<"K", "Q", "R", "B", "N", "P", "k", "q", "r", "b", "n", "p">>

FenPiece(ch) ==
  LET k == IndexOf(FenPieceLetters, ch) IN
  OPiece(IF k <= 6 THEN "w" ELSE "b", FenPieceLetters[((k - 1) % 6) + 1])

BadPiece == OPiece("?", "?")

\* one rank of the placement field as a sequence of pieces; BadPiece for a bad character
RECURSIVE FenRank(_, _)
FenRank(r, k) ==
  IF k > Len(r) THEN <<>>
  ELSE LET d == IndexOf(DigitChars, r[k]) - 1 IN
       IF d >= 1 /\ d <= 8 THEN [x \in 1..d |-> NoPiece] \o FenRank(r, k + 1)
       ELSE IF IndexOf(FenPieceLetters, r[k]) > 0 THEN <<FenPiece(r[k])>> \o FenRank(r, k + 1)
       ELSE <<BadPiece>> \o FenRank(r, k + 1)

\* the ranks of the placement field, first row first
RECURSIVE FenRanks(_, _)
FenRanks(rows, k) ==
  IF k > Len(rows) THEN <<>> ELSE <<FenRank(rows[k], 1)>> \o FenRanks(rows, k + 1)

FenSquareOK(f) ==
  /\ Len(f) = 2
  /\ IndexOf(FileChars, f[1]) > 0
  /\ f[2] \in {"3", "6"}

ParseSquare(f) == SquareAt(IndexOf(FileChars, f[1]) - 1, IndexOf(DigitChars, f[2]) - 2)

FenBadPos == [ok |-> FALSE]

\* chess.FEN(fen): the position, or an error ([ok |-> FALSE])
FEN(fen) ==
  LET parts == Split(fen, " ") IN
  IF Len(parts) # 6 THEN FenBadPos
  ELSE
  LET rows  == Split(parts[1], "/")
      ranks == FenRanks(rows, 1)
  IN
  IF \/ Len(rows) # 8
     \/ \E k \in 1..Len(rows) : Len(ranks[k]) # 8 \/ \E x \in 1..Len(ranks[k]) : ranks[k][x] = BadPiece
     \/ parts[2] \notin {<<"w">>, <<"b">>}
     \/ ~(parts[3] = <<"-">> \/ \A k \in 1..Len(parts[3]) : parts[3][k] \in {"K", "Q", "k", "q"})
     \/ ~(parts[4] = <<"-">> \/ FenSquareOK(parts[4]))
  THEN FenBadPos
  ELSE [ok     |-> TRUE,
        board  |-> [s \in Squares |-> ranks[8 - RankOf(s)][FileOf(s) + 1]],
        turn   |-> parts[2][1],
        castle |-> {parts[3][k] : k \in 1..Len(parts[3])} \ {"-"},
        ep     |-> IF parts[4] = <<"-">> THEN NoSquare ELSE ParseSquare(parts[4])]

\* ---- attacks and check ----
PathClear(b, q, s) ==
  LET df == FileOf(s) - FileOf(q)
      dr == RankOf(s) - RankOf(q)
      n  == Max(abs(df), abs(dr))
      st == sign(dr) * 8 + sign(df)
  IN \A k \in 1..(n - 1) : b[q + k * st] = NoPiece

Attacks(b, q, s) ==
  LET p  == b[q]
      df == FileOf(s) - FileOf(q)
      dr == RankOf(s) - RankOf(q)
      diag == abs(df) = abs(dr) /\ df # 0
      line == (df = 0) # (dr = 0)
  IN CASE p.t = "P" -> dr = (IF p.c = "w" THEN 1 ELSE -1) /\ abs(df) = 1
       [] p.t = "N" -> {abs(df), abs(dr)} = {1, 2}
       [] p.t = "K" -> abs(df) <= 1 /\ abs(dr) <= 1 /\ q # s
       [] p.t = "B" -> diag /\ PathClear(b, q, s)
       [] p.t = "R" -> line /\ PathClear(b, q, s)
       [] p.t = "Q" -> (diag \/ line) /\ PathClear(b, q, s)
       [] OTHER -> FALSE

SquareAttacked(b, s, by) == \E q \in Squares : b[q].c = by /\ Attacks(b, q, s)

InCheck(b, c) ==
  \E k \in Squares : b[k] = OPiece(c, "K") /\ SquareAttacked(b, k, Other(c))

\* ---- moves ----
NoPromo == "-"

Move(s1, s2, promo, tags) == [s1 |-> s1, s2 |-> s2, promo |-> promo, tags |-> tags]

\* the tags the library puts on a move in position pos
TagsOf(pos, s1, s2) ==
  LET p == pos.board[s1] IN
  (IF p.t = "K" /\ <<s1, s2>> \in {<<4, 6>>, <<60, 62>>} THEN {"KingSideCastle"} ELSE {})
  \cup (IF p.t = "K" /\ <<s1, s2>> \in {<<4, 2>>, <<60, 58>>} THEN {"QueenSideCastle"} ELSE {})
  \cup (IF p.t = "P" /\ s2 = pos.ep THEN {"EnPassant"} ELSE {})

\* Board.update: the placement after move m by the piece on m.s1
BoardUpdate(b, m) ==
  LET p  == b[m.s1]
      b1 == [b EXCEPT ![m.s2] = IF m.promo # NoPromo THEN OPiece(p.c, m.promo) ELSE p,
                      ![m.s1] = NoPiece]
      cap == IF p.c = "w" THEN m.s2 - 8 ELSE m.s2 + 8
      b2 == IF "EnPassant" \in m.tags /\ cap \in Squares /\ b1[cap] = OPiece(Other(p.c), "P")
            THEN [b1 EXCEPT ![cap] = NoPiece] ELSE b1
      r0 == RankOf(m.s1) * 8
      rk == OPiece(p.c, "R")
  IN IF "KingSideCastle" \in m.tags
       THEN [b2 EXCEPT ![r0 + 7] = IF b2[r0 + 7] = rk THEN NoPiece ELSE @, ![r0 + 5] = rk]
     ELSE IF "QueenSideCastle" \in m.tags
       THEN [b2 EXCEPT ![r0] = IF b2[r0] = rk THEN NoPiece ELSE @, ![r0 + 3] = rk]
     ELSE b2

\* the castling moves the library generates (castleMoves)
CastleOK(pos, s1, s2) ==
  LET b == pos.board
      w == pos.turn = "w"
      r0 == IF w THEN 0 ELSE 56
      ks == s2 = r0 + 6
      right == IF w THEN (IF ks THEN "K" ELSE "Q") ELSE (IF ks THEN "k" ELSE "q")
      empties == IF ks THEN {r0 + 5, r0 + 6} ELSE {r0 + 1, r0 + 2, r0 + 3}
      safe == IF ks THEN {r0 + 5, r0 + 6} ELSE {r0 + 2, r0 + 3}
  IN /\ s1 = r0 + 4
     /\ s2 \in {r0 + 6, r0 + 2}
     /\ right \in pos.castle
     /\ \A e \in empties : b[e] = NoPiece
     /\ \A e \in safe : ~SquareAttacked(b, e, Other(pos.turn))
     /\ ~InCheck(b, pos.turn)

\* the piece on s1 may go to s2 by its movement pattern (standardMoves)
Reaches(pos, s1, s2, promo) ==
  LET b  == pos.board
      p  == b[s1]
      df == FileOf(s2) - FileOf(s1)
      dr == RankOf(s2) - RankOf(s1)
      fw == IF p.c = "w" THEN 1 ELSE -1
      home == IF p.c = "w" THEN 1 ELSE 6
      last == IF p.c = "w" THEN 7 ELSE 0
  IN IF p.t = "P"
     THEN /\ \/ df = 0 /\ dr = fw /\ b[s2] = NoPiece
             \/ df = 0 /\ dr = 2 * fw /\ RankOf(s1) = home
                /\ b[s1 + 8 * fw] = NoPiece /\ b[s2] = NoPiece
             \/ abs(df) = 1 /\ dr = fw /\ (b[s2].c = Other(p.c) \/ s2 = pos.ep)
          /\ (RankOf(s2) = last) = (promo # NoPromo)
     ELSE promo = NoPromo /\ Attacks(b, s1, s2)

\* m is one of pos.ValidMoves()
Legal(pos, s1, s2, promo) ==
  LET b == pos.board
      p == b[s1]
  IN /\ p.c = pos.turn
     /\ b[s2].c # pos.turn
     /\ \/ p.t = "K" /\ CastleOK(pos, s1, s2) /\ promo = NoPromo
        \/ /\ Reaches(pos, s1, s2, promo)
           /\ ~InCheck(BoardUpdate(b, Move(s1, s2, promo, TagsOf(pos, s1, s2))), pos.turn)

\* Position.Update: the position after the valid move m
PositionUpdate(pos, m) ==
  LET p == pos.board[m.s1]
      gone == (IF p.t = "K" THEN (IF p.c = "w" THEN {"K", "Q"} ELSE {"k", "q"}) ELSE {})
              \cup (IF 7 \in {m.s1, m.s2} THEN {"K"} ELSE {})
              \cup (IF 0 \in {m.s1, m.s2} THEN {"Q"} ELSE {})
              \cup (IF 63 \in {m.s1, m.s2} THEN {"k"} ELSE {})
              \cup (IF 56 \in {m.s1, m.s2} THEN {"q"} ELSE {})
  IN [ok     |-> TRUE,
      board  |-> BoardUpdate(pos.board, m),
      turn   |-> Other(pos.turn),
      castle |-> pos.castle \ gone,
      ep     |-> IF p.t = "P" /\ abs(m.s2 - m.s1) = 16
                 THEN (m.s1 + m.s2) \div 2 ELSE NoSquare]

\* ---- chess.UCINotation{}.Decode and Move.String ----
NilMove == [nil |-> TRUE]

PromoChars == <<"q", "r", "b", "n">>

PromoTypes == <<"Q", "R", "B", "N">>

SquareOK(f, r) == IndexOf(FileChars, f) > 0 /\ IndexOf(DigitChars, r) \in 2..9

SquareOf(f, r) == SquareAt(IndexOf(FileChars, f) - 1, IndexOf(DigitChars, r) - 2)

\* the text is well formed: two squares and an optional promotion letter
DecodeSyntaxOK(s) ==
  /\ Len(s) \in {4, 5}
  /\ SquareOK(s[1], s[2])
  /\ SquareOK(s[3], s[4])
  /\ Len(s) = 5 => IndexOf(PromoChars, s[5]) > 0

DecodedMove(pos, s) ==
  LET s1 == SquareOf(s[1], s[2])
      s2 == SquareOf(s[3], s[4])
      promo == IF Len(s) = 5 THEN PromoTypes[IndexOf(PromoChars, s[5])] ELSE NoPromo
  IN [nil |-> FALSE, s1 |-> s1, s2 |-> s2, promo |-> promo, tags |-> TagsOf(pos, s1, s2)]

\* a Decode that hands back the move it rejects
DecodeKeepsMove(pos, s, validates) ==
  IF ~DecodeSyntaxOK(s) THEN [err |-> TRUE, move |-> NilMove]
  ELSE [err |-> validates /\ ~Legal(pos, DecodedMove(pos, s).s1, DecodedMove(pos, s).s2,
                                    DecodedMove(pos, s).promo),
        move |-> DecodedMove(pos, s)]

\* Decode(pos, s) -> (move, err).  validates: the library also rejects a move that
\* is not valid in pos (the interface of spec section 6); otherwise it rejects
\* malformed text only and leaves validity to Game.Move.
Decode(pos, s, validates) ==
  IF ~DecodeSyntaxOK(s) THEN [err |-> TRUE, move |-> NilMove]
  ELSE LET m == DecodedMove(pos, s) IN
       IF validates /\ ~Legal(pos, m.s1, m.s2, m.promo)
       THEN [err |-> TRUE, move |-> NilMove]
       ELSE [err |-> FALSE, move |-> m]

SquareString(sq) == <<FileChars[FileOf(sq) + 1], Digit(RankOf(sq) + 1)>>

\* Move.String() of a non-nil move
MoveString(m) ==
  SquareString(m.s1) \o SquareString(m.s2)
  \o (IF m.promo = NoPromo THEN <<>> ELSE <<PromoChars[IndexOf(PromoTypes, m.promo)]>>)

\* a Game.Move that plays whatever it is given
GameMoveAny(pos, m) == [err |-> FALSE, pos |-> PositionUpdate(pos, m)]

\* Game.Move(m): err, or the game advanced by the valid move equal to m
GameMove(pos, m) ==
  IF Legal(pos, m.s1, m.s2, m.promo)
  THEN [err |-> FALSE, pos |-> PositionUpdate(pos, m)]
  ELSE [err |-> TRUE, pos |-> pos]

\* Position.String(): the FEN text of a position (the counters are not tracked)
OLetter(p) == IF p.c = "w" THEN p.t ELSE TypeLetter(
  CASE p.t = "K" -> King [] p.t = "Q" -> Queen [] p.t = "R" -> Rook
    [] p.t = "B" -> Bishop [] p.t = "N" -> Knight [] p.t = "P" -> Pawn)

RECURSIVE ORankFEN(_, _, _, _)
ORankFEN(b, rank, file, empty) ==
  IF file > 7 THEN (IF empty > 0 THEN <<Digit(empty)>> ELSE <<>>)
  ELSE LET p == b[SquareAt(file, rank)] IN
       IF p = NoPiece THEN ORankFEN(b, rank, file + 1, empty + 1)
       ELSE (IF empty > 0 THEN <<Digit(empty)>> ELSE <<>>) \o <<OLetter(p)>>
            \o ORankFEN(b, rank, file + 1, 0)

PositionString(pos) ==
  Join(<<ORankFEN(pos.board, 7, 0, 0), ORankFEN(pos.board, 6, 0, 0),
         ORankFEN(pos.board, 5, 0, 0), ORankFEN(pos.board, 4, 0, 0),
         ORankFEN(pos.board, 3, 0, 0), ORankFEN(pos.board, 2, 0, 0),
         ORankFEN(pos.board, 1, 0, 0), ORankFEN(pos.board, 0, 0, 0)>>, "/")
  \o <<" ", pos.turn, " ">>
  \o (IF pos.castle = {} THEN <<"-">>
      ELSE SelectSeq(<<"K", "Q", "k", "q">>, LAMBDA ch : ch \in pos.castle))
  \o <<" ">>
  \o (IF pos.ep = NoSquare THEN <<"-">> ELSE SquareString(pos.ep))
  \o <<" ", "0", " ", "1">>

\* chess.NewGame(): the standard starting position
StartPos == FEN(ToFEN(NewChessBoard, White, -1, -1))

(***************************************************************************)
(* pkg/history/history.go: the move log                                     *)
(***************************************************************************)
AddMove(hist, move) == Append(hist, move)

\* a clear that leaves one token behind
KeepOneMove == << <<"e", "2", "e", "4">> >>

ClearHistory == <<>>

(***************************************************************************)
(* pkg/gui/gui.go: the move applier                                         *)
(***************************************************************************)
GuiType(t) ==
  CASE t = "K" -> King [] t = "Q" -> Queen [] t = "R" -> Rook
    [] t = "B" -> Bishop [] t = "N" -> Knight [] t = "P" -> Pawn

\* updateBoardFromGame, gui.go 261-295: every square re-read from the oracle
updateBoardFromGame(pos) ==
  [i \in Idx |-> [j \in Idx |->
     LET p == pos.board[(7 - i) * 8 + j] IN
     IF p = NoPiece THEN EmptyPiece
     ELSE Piece(IF p.c = "w" THEN White ELSE Black, GuiType(p.t))]]

\* a setEnPassantSquare without the clearing else-branch
setEnPassantSquareKeep(piece, fromRow, fromCol, toRow, toCol, epRow, epCol) ==
  IF piece.Type = Pawn /\ abs(fromRow - toRow) = 2 /\ fromCol = toCol
  THEN <<IF piece.Color = White THEN toRow + 1 ELSE toRow - 1, toCol>>
  ELSE <<epRow, epCol>>

\* a setEnPassantSquare that takes the square the pawn lands on
setEnPassantSquareLanding(piece, fromRow, fromCol, toRow, toCol, epRow, epCol) ==
  IF piece.Type = Pawn /\ abs(fromRow - toRow) = 2 /\ fromCol = toCol
  THEN <<toRow, toCol>>
  ELSE <<-1, -1>>

\* setEnPassantSquare, gui.go 238-253: the new (enPassantRow, enPassantCol)
setEnPassantSquare(piece, fromRow, fromCol, toRow, toCol, epRow, epCol) ==
  IF piece.Type = Pawn /\ abs(fromRow - toRow) = 2 /\ fromCol = toCol
  THEN IF piece.Color = White THEN <<toRow + 1, toCol>>
       ELSE IF piece.Color = Black THEN <<toRow - 1, toCol>>
       ELSE <<epRow, epCol>>
  ELSE <<-1, -1>>

\* the text " e.p." appended to an en-passant token (gui.go 212)
EpSuffix == <<" ", "e", ".", "p", ".">>

\* fmt.Sprintf("%c%d%c%d", 'a'+fromCol, 8-fromRow, 'a'+toCol, 8-toRow), gui.go 167
MoveStr(fromRow, fromCol, toRow, toCol) ==
  <<FileChars[fromCol + 1], Digit(8 - fromRow), FileChars[toCol + 1], Digit(8 - toRow)>>

\* a castling token that takes the queen side for column 6 and the king side for column 2
CastleTokenSwapped(toCol, turn) ==
  IF toCol = 6 THEN (IF turn = Black THEN <<"e", "8", "c", "8">> ELSE <<"e", "1", "c", "1">>)
  ELSE IF toCol = 2 THEN (IF turn = Black THEN <<"e", "8", "g", "8">> ELSE <<"e", "1", "g", "1">>)
  ELSE <<>>

\* the fixed castling token of gui.go 181-191; <<>> when toCol is neither 6 nor 2
CastleToken(toCol, turn) ==
  IF toCol = 6 THEN (IF turn = Black THEN <<"e", "8", "g", "8">> ELSE <<"e", "1", "g", "1">>)
  ELSE IF toCol = 2 THEN (IF turn = Black THEN <<"e", "8", "c", "8">> ELSE <<"e", "1", "c", "1">>)
  ELSE <<>>

\* What one call of MovePiece leaves behind: ret is the value returned, panic says
\* the call ended in a run-time panic instead of returning, path names the return
\* statement reached, decoded/applied say whether the oracle decoded the move that
\* was adopted and applied it to its position.
Outcome(ret, panic, path, b, hist, ep, decoded, applied) ==
  [ret |-> ret, panic |-> panic, path |-> path, board |-> b, moves |-> hist,
   enPassantRow |-> ep[1], enPassantCol |-> ep[2], decoded |-> decoded, applied |-> applied]

\* a bounds check that looks at the rows only
InRangeRows(fromRow, fromCol, toRow, toCol) ==
  ~(fromRow < 0 \/ fromRow > 7 \/ toRow < 0 \/ toRow > 7)

\* the bounds check of gui.go 156-159 passes
InRange(fromRow, fromCol, toRow, toCol) ==
  ~(fromRow < 0 \/ fromRow > 7 \/ fromCol < 0 \/ fromCol > 7
    \/ toRow < 0 \/ toRow > 7 \/ toCol < 0 \/ toCol > 7)

\* a return false that has changed nothing
Rejected(path, b, hist, epRow, epCol) ==
  Outcome(FALSE, FALSE, path, b, hist, <<epRow, epCol>>, FALSE, FALSE)

\* a moveStr that promotes to a Rook
PromoStrRook(piece, fromRow, fromCol, toRow, toCol) ==
  MoveStr(fromRow, fromCol, toRow, toCol)
  \o (IF piece.Type = Pawn /\ (toRow = 0 \/ toRow = 7) THEN <<"r">> ELSE <<>>)

\* moveStr with the promotion letter of gui.go 170-173
PromoStr(piece, fromRow, fromCol, toRow, toCol) ==
  MoveStr(fromRow, fromCol, toRow, toCol)
  \o (IF piece.Type = Pawn /\ (toRow = 0 \/ toRow = 7) THEN <<"q">> ELSE <<>>)

\* game.Move(move) == nil followed by updateBoardFromGame, history.AddMove(move.String())
\* and setEnPassantSquare (gui.go 192-196, 219-223, 228-235); res is game.Move's answer
applyMove(path, rejectPath, b, hist, epRow, epCol, piece, fromRow, fromCol, toRow, toCol, move, res) ==
  IF res.err THEN Rejected(rejectPath, b, hist, epRow, epCol)
  ELSE Outcome(TRUE, FALSE, path, updateBoardFromGame(res.pos),
               AddMove(hist, MoveString(move)),
               setEnPassantSquare(piece, fromRow, fromCol, toRow, toCol, epRow, epCol),
               TRUE, TRUE)

\* the castleMove of gui.go 179-191: nil unless the king moves two columns to column 6 or 2
castleMove(pos, validates, piece, fromRow, fromCol, toRow, toCol, turn) ==
  IF piece.Type = King /\ fromRow = toRow /\ abs(fromCol - toCol) = 2
     /\ CastleToken(toCol, turn) # <<>>
  THEN Decode(pos, CastleToken(toCol, turn), validates).move
  ELSE NilMove

\* the second decode of the same text, gui.go 217-224; again is its answer
retryDiagonal(b, hist, epRow, epCol, pos, piece, fromRow, fromCol, toRow, toCol, again) ==
  IF again.err THEN Rejected("reject", b, hist, epRow, epCol)
  ELSE applyMove("fallback", "reject", b, hist, epRow, epCol, piece, fromRow, fromCol,
                 toRow, toCol, again.move, GameMove(pos, again.move))

\* the en-passant branch, gui.go 199-225, entered with the failed decode dec
tryEnPassant(b, hist, epRow, epCol, pos, validates, piece, fromRow, fromCol, toRow, toCol, dec) ==
  IF piece.Type = Pawn /\ fromRow # toRow /\ fromCol # toCol /\ b[toRow][toCol].Type = Empty
  THEN
    IF toRow = epRow /\ toCol = epCol
    THEN
      LET capRow == IF piece.Color = White THEN toRow + 1 ELSE toRow - 1
          synced == updateBoardFromGame(pos)
      IN
      IF capRow \notin Idx
      THEN Outcome(FALSE, TRUE, "ep-index", synced, hist, <<epRow, epCol>>, FALSE, FALSE)
      ELSE IF dec.move.nil
      THEN Outcome(FALSE, TRUE, "ep-nil", [synced EXCEPT ![capRow][toCol] = EmptyPiece],
                   hist, <<epRow, epCol>>, FALSE, FALSE)
      ELSE Outcome(TRUE, FALSE, "ep", [synced EXCEPT ![capRow][toCol] = EmptyPiece],
                   AddMove(hist, MoveString(dec.move) \o EpSuffix),
                   setEnPassantSquare(piece, fromRow, fromCol, toRow, toCol, epRow, epCol),
                   FALSE, FALSE)
    ELSE retryDiagonal(b, hist, epRow, epCol, pos, piece, fromRow, fromCol, toRow, toCol,
                       Decode(pos, PromoStr(piece, fromRow, fromCol, toRow, toCol), validates))
  ELSE Rejected("reject", b, hist, epRow, epCol)

\* the castling branch, gui.go 178-198; cm is castleMove
tryCastling(b, hist, epRow, epCol, pos, validates, piece, fromRow, fromCol, toRow, toCol, dec, cm) ==
  IF ~cm.nil /\ ~GameMove(pos, cm).err
  THEN applyMove("castle", "reject", b, hist, epRow, epCol, piece, fromRow, fromCol, toRow,
                 toCol, cm, GameMove(pos, cm))
  ELSE tryEnPassant(b, hist, epRow, epCol, pos, validates, piece, fromRow, fromCol, toRow,
                    toCol, dec)

\* gui.go 176-235: the branches on the answer dec of the first Decode
afterDecode(b, hist, epRow, epCol, pos, validates, piece, fromRow, fromCol, toRow, toCol, turn, dec) ==
  IF dec.err
  THEN tryCastling(b, hist, epRow, epCol, pos, validates, piece, fromRow, fromCol, toRow,
                   toCol, dec,
                   castleMove(pos, validates, piece, fromRow, fromCol, toRow, toCol, turn))
  ELSE applyMove("normal", "illegal", b, hist, epRow, epCol, piece, fromRow, fromCol, toRow,
                 toCol, dec.move, GameMove(pos, dec.move))

\* ChessBoard.MovePiece, gui.go 154-236, from the bounds check on; chessFen is
\* chess.FEN(b.ToFEN(turn)) and validates is the oracle's Decode behaviour.
MovePieceOn(b, hist, epRow, epCol, chessFen, validates, fromRow, fromCol, toRow, toCol, turn) ==
  IF ~InRange(fromRow, fromCol, toRow, toCol) THEN Rejected("bounds", b, hist, epRow, epCol)
  ELSE IF ~chessFen.ok THEN Rejected("fen", b, hist, epRow, epCol)
  ELSE IF ~({fromRow, fromCol, toRow, toCol} \subseteq Idx)
  THEN \* b[fromRow][fromCol]: index out of range
       Outcome(FALSE, TRUE, "index", b, hist, <<epRow, epCol>>, FALSE, FALSE)
  ELSE afterDecode(b, hist, epRow, epCol, chessFen, validates, b[fromRow][fromCol],
                   fromRow, fromCol, toRow, toCol, turn,
                   Decode(chessFen, PromoStr(b[fromRow][fromCol], fromRow, fromCol, toRow, toCol),
                          validates))

\* ChessBoard.MovePiece with the FEN export and the oracle's parse of it
MovePiece(b, hist, epRow, epCol, validates, fromRow, fromCol, toRow, toCol, turn) ==
  MovePieceOn(b, hist, epRow, epCol, FEN(ToFEN(b, turn, epRow, epCol)), validates,
              fromRow, fromCol, toRow, toCol, turn)

(***************************************************************************)
(* cmd/main/main.go: the game state and the handlers that change it         *)
(***************************************************************************)
VARIABLES
  board,              \* main.board
  turn,               \* main.turn
  moves,              \* history.moves
  enPassantRow,       \* gui.enPassantRow
  enPassantCol,       \* gui.enPassantCol
  LoadedEngineConfig, \* engine.LoadedEngineConfig (Automove, EngineColor)
  decodeValidates,    \* whether the linked oracle's Decode rejects invalid moves
  crashed,            \* a handler ended in a run-time panic: the process is gone
  played,             \* successful MovePiece calls so far
  ev,                 \* what the handler of the last key event did, until layout redraws
  fenStr,             \* the string a caller of the gui package holds (fen, main.go 247, 404)
  tmpBoard,           \* what NewChessBoardFromFEN made of it (tmpBoard, main.go 248)
  mu,                 \* history.mu: 0 when unlocked, else the goroutine that locked it
  heap,               \* the backing arrays of the slices of strings allocated so far
  movesSlice,         \* history.moves as a slice: backing array, len and cap
  pc,                 \* where each goroutine calling the history package stands
  local,              \* the call each goroutine is in: arguments, locals, result
  logged,             \* the tokens appended since the last clear, in the order of the writes
  calls,              \* calls of the history package started so far
  sanGame,            \* the *chess.Game handed to history.IsInCheck
  checked,            \* what IsInCheck answered for it
  lines,              \* what GetMoveHistorySAN returned for the history
  historyIndex,       \* main.historyIndex: -1 is the live view
  cursor,             \* main.cursor
  BoardFlipped,       \* gui.BoardFlipped
  readPump,           \* where each client's ReadPump stands
  writePump,          \* where each client's WritePump goroutine stands
  Send,               \* Client.Send of each client
  Conn,               \* Client.Conn of each client
  received            \* the messages each client's ReadPump has logged

\* the state of the callers of the gui package's conversions
guiVars == <<fenStr, tmpBoard>>

\* the state of the history package as a concurrent object
histVars == <<mu, heap, movesSlice, pc, local, logged, calls>>

\* the state of the callers of IsInCheck and GetMoveHistorySAN
sanVars == <<sanGame, checked, lines>>

\* the state outside the handlers of main.go
\* the view state of main.go
navVars == <<historyIndex>>

curVars == <<cursor, BoardFlipped>>

\* the state of the websocket clients
wsVars == <<readPump, writePump, Send, Conn, received>>

uiVars == <<navVars, curVars, wsVars>>

pkgVars == <<guiVars, histVars, sanVars, uiVars>>

vars == <<board, turn, moves, enPassantRow, enPassantCol, LoadedEngineConfig,
          decodeValidates, crashed, played, ev, pkgVars>>

\* ---- bounds of the model ----
\* successful moves per session before the model stops offering move events
MaxPlies == 3

\* the (selectedRow, selectedCol, cursor.Row, cursor.Col) a drop may happen with
InMoves ==
  { <<6, 4, 4, 4>>, <<1, 3, 3, 3>>, <<1, 4, 3, 4>>, <<4, 3, 5, 4>>, <<6, 3, 5, 4>>,
    <<7, 4, 7, 6>>, <<0, 4, 0, 6>>, <<1, 6, 0, 5>>, <<6, 4, 5, 3>>, <<6, 4, 3, 4>>,
    <<6, 4, 6, 4>>, <<4, 4, 4, 4>>, <<4, 4, 3, 4>>, <<7, 6, 5, 5>>, <<4, 4, 3, 3>> }

\* what engine.GetBestMove may answer; <<>> stands for an error or an empty answer
EngineReplies ==
  { <<>>, <<"e", "2">>, <<"e", "2", "e", "4">>, <<"d", "7", "d", "5">>,
    <<"e", "9", "e", "4">>, <<"i", "2", "e", "4">>, <<"e", "2", "e", "0">>,
    <<"e", "2", "j", "4">>, <<"2", "e", "4", "e">>, <<"m", "2", "m", "4">>,
    <<"e", "2", "e", "4", "q">> }

\* the games a PGN file may hold, as the UCI text of their moves
LoadGames ==
  { <<<<"a", "2", "a", "3">>, <<"d", "7", "d", "5">>, <<"a", "3", "a", "4">>,
      <<"d", "5", "d", "4">>>>,
    <<<<"e", "2", "e", "4">>, <<"e", "7", "e", "5">>, <<"g", "1", "f", "3">>,
      <<"g", "8", "f", "6">>, <<"f", "1", "c", "4">>, <<"f", "8", "c", "5">>>>,
    <<<<"f", "2", "f", "4">>, <<"g", "7", "g", "5">>, <<"f", "4", "g", "5">>,
      <<"f", "7", "f", "6">>, <<"g", "5", "g", "6">>, <<"f", "6", "f", "5">>,
      <<"g", "6", "g", "7">>, <<"f", "5", "f", "4">>>>,
    <<<<"d", "2", "d", "4">>, <<"c", "7", "c", "5">>, <<"d", "4", "c", "5">>,
      <<"d", "7", "d", "5">>, <<"a", "2", "a", "3">>, <<"d", "5", "d", "4">>,
      <<"a", "3", "a", "4">>, <<"e", "8", "d", "7">>>> }

\* ---- text and bytes ----
LowerChars == <<"a", "b", "c", "d", "e", "f", "g", "h", "i", "j", "k", "l", "m",
                "n", "o", "p", "q", "r", "s", "t", "u", "v", "w", "x", "y", "z">>

UpperChars == <<"A", "B", "C", "D", "E", "F", "G", "H", "I", "J", "K", "L", "M",
                "N", "O", "P", "Q", "R", "S", "T", "U", "V", "W", "X", "Y", "Z">>

\* the byte value of a digit or a letter
ByteOf(ch) ==
  IF IndexOf(DigitChars, ch) > 0 THEN 47 + IndexOf(DigitChars, ch)
  ELSE IF IndexOf(LowerChars, ch) > 0 THEN 96 + IndexOf(LowerChars, ch)
  ELSE 64 + IndexOf(UpperChars, ch)

\* strings.ToLower on one character
ToLower(ch) == IF IndexOf(UpperChars, ch) > 0 THEN LowerChars[IndexOf(UpperChars, ch)] ELSE ch

(***************************************************************************)
(* NewChessBoardFromFEN, gui.go 104-150                                     *)
(***************************************************************************)
\* Piece{}: the zero value of the struct, Color 0 and Type 0
ZeroPiece == Piece(0, 0)

\* the loop over the characters of one row; panic is an index past column 7
RECURSIVE FromFENRow(_, _, _, _)
FromFENRow(cells, row, k, col) ==
  IF k > Len(row) \/ col >= 8 THEN [panic |-> FALSE, cells |-> cells]
  ELSE
  LET c == row[k]
      d == IndexOf(DigitChars, c) - 1
  IN
  IF d >= 1 /\ d <= 8
  THEN LET filled == [j \in Idx |-> IF j >= col /\ j < col + d THEN EmptyPiece ELSE cells[j]]
       IN IF col + d > 8 THEN [panic |-> TRUE, cells |-> filled]
          ELSE FromFENRow(filled, row, k + 1, col + d)
  ELSE
  LET color == IF IndexOf(UpperChars, c) > 0 THEN White ELSE Black
      l     == ToLower(c)
      typ   == CASE l = "k" -> King [] l = "q" -> Queen [] l = "r" -> Rook
                 [] l = "b" -> Bishop [] l = "n" -> Knight [] l = "p" -> Pawn
                 [] OTHER -> Empty
  IN FromFENRow([cells EXCEPT ![col] = Piece(color, typ)], row, k + 1, col + 1)

NewChessBoardFromFEN(fen) ==
  LET rows   == Split(fen, "/")
      zero   == [j \in Idx |-> ZeroPiece]
      parsed == [i \in Idx |-> IF i + 1 <= Len(rows) THEN FromFENRow(zero, rows[i + 1], 1, 0)
                               ELSE [panic |-> FALSE, cells |-> zero]]
  IN [panic |-> \E i \in Idx : parsed[i].panic,
      board |-> [i \in Idx |-> parsed[i].cells]]

(***************************************************************************)
(* pkg/history/history.go 41-187: IsInCheck and its helpers                 *)
(***************************************************************************)
\* IsInCheck has not been called
NotChecked == [result |-> FALSE, at |-> -2]

\* GetMoveHistorySAN has not been called
NoLines == [called |-> FALSE, text |-> <<>>, halves |-> <<>>]

\* a search that takes the first king of either colour
findAnyKing(b, c, sq) ==
  IF \E q \in Squares : b[q].t = "K" THEN CHOOSE q \in Squares : b[q].t = "K" /\ \A x \in 0..(q - 1) : b[x].t # "K"
  ELSE NoSquare

\* history.go 48-55: the first square from A1 with a King of colour c, else NoSquare
RECURSIVE findKing(_, _, _)
findKing(b, c, sq) ==
  IF sq > 63 THEN NoSquare
  ELSE IF b[sq] # NoPiece /\ b[sq].t = "K" /\ b[sq].c = c THEN sq
  ELSE findKing(b, c, sq + 1)

\* a pawn test with White attacking towards rank 8
pawnChecksUp(sq, kingSq, opponent) ==
  \E fileOffset \in {-1, 1} :
    /\ sq + (IF opponent = "w" THEN 1 ELSE -1) * 8 + fileOffset = kingSq
    /\ abs((sq % 8) - (kingSq % 8)) = 1

\* history.go 67-82: dir is -1 for a White pawn, 1 for a Black pawn
pawnChecks(sq, kingSq, opponent) ==
  \E fileOffset \in {-1, 1} :
    LET attackedSq == sq + (IF opponent = "w" THEN -1 ELSE 1) * 8 + fileOffset IN
    /\ attackedSq >= 0 /\ attackedSq <= 63 /\ attackedSq = kingSq
    /\ abs((sq % 8) - (kingSq % 8)) = 1

\* isKingAdjacent, history.go 116-120
isKingAdjacent(from, to) ==
  (abs((from % 8) - (to % 8)) <= 1 /\ abs((from \div 8) - (to \div 8)) <= 1) /\ from # to

\* a knight test that accepts every offset
isValidKnightMoveAlways(from, to) == TRUE

\* isValidKnightMove, history.go 123-127
isValidKnightMove(from, to) ==
  \/ abs((from % 8) - (to % 8)) = 1 /\ abs((from \div 8) - (to \div 8)) = 2
  \/ abs((from % 8) - (to % 8)) = 2 /\ abs((from \div 8) - (to \div 8)) = 1

\* history.go 83-93: the eight offsets, then the wrap-around test
knightChecks(sq, kingSq) ==
  \E offset \in {15, 17, 6, 10, -15, -17, -6, -10} :
    /\ sq + offset >= 0 /\ sq + offset <= 63 /\ sq + offset = kingSq
    /\ isValidKnightMove(sq, sq + offset)

\* a walk that steps over occupied squares
RECURSIVE walkThrough(_, _, _, _, _, _, _)
walkThrough(b, f, r, stepF, stepR, to, n) ==
  IF f + stepF < 0 \/ f + stepF > 7 \/ r + stepR < 0 \/ r + stepR > 7
  THEN [reach |-> FALSE, steps |-> n + 1]
  ELSE IF (r + stepR) * 8 + (f + stepF) = to THEN [reach |-> TRUE, steps |-> n + 1]
  ELSE walkThrough(b, f + stepF, r + stepR, stepF, stepR, to, n + 1)

\* the loop of history.go 161-175 from (f, r); steps counts its iterations
RECURSIVE walk(_, _, _, _, _, _, _)
walk(b, f, r, stepF, stepR, to, n) ==
  IF f + stepF < 0 \/ f + stepF > 7 \/ r + stepR < 0 \/ r + stepR > 7
  THEN [reach |-> FALSE, steps |-> n + 1]
  ELSE IF (r + stepR) * 8 + (f + stepF) = to THEN [reach |-> TRUE, steps |-> n + 1]
  ELSE IF b[(r + stepR) * 8 + (f + stepF)] # NoPiece THEN [reach |-> FALSE, steps |-> n + 1]
  ELSE walk(b, f + stepF, r + stepR, stepF, stepR, to, n + 1)

\* canPieceReach, history.go 130-176
canPieceReach(b, from, to, pt) ==
  LET df == (to % 8) - (from % 8)
      dr == (to \div 8) - (from \div 8)
      diagonal == abs(df) = abs(dr) /\ df # 0
      straight == (df = 0 /\ dr # 0) \/ (df # 0 /\ dr = 0)
  IN IF \/ pt = "B" /\ ~(abs(df) # abs(dr) \/ df = 0)
        \/ pt = "R" /\ ~(df # 0 /\ dr # 0)
        \/ pt = "Q" /\ (diagonal \/ straight)
     THEN walk(b, from % 8, from \div 8, sign(df), sign(dr), to, 0)
     ELSE [reach |-> FALSE, steps |-> 0]

\* the switch of history.go 66-102 for the piece on sq
pieceChecks(b, sq, kingSq, opponent) ==
  CASE b[sq].t = "P" -> pawnChecks(sq, kingSq, opponent)
    [] b[sq].t = "N" -> knightChecks(sq, kingSq)
    [] b[sq].t \in {"B", "R", "Q"} -> canPieceReach(b, sq, kingSq, b[sq].t).reach
    [] b[sq].t = "K" -> isKingAdjacent(sq, kingSq)
    [] OTHER -> FALSE

\* the loop of history.go 61-104 from sq on: at is the square whose piece made it
\* return true, 64 when every square has been examined
RECURSIVE scanAttackers(_, _, _, _)
scanAttackers(b, sq, kingSq, opponent) ==
  IF sq > 63 THEN [result |-> FALSE, at |-> 64]
  ELSE IF b[sq] # NoPiece /\ b[sq].c = opponent /\ pieceChecks(b, sq, kingSq, opponent)
  THEN [result |-> TRUE, at |-> sq]
  ELSE scanAttackers(b, sq + 1, kingSq, opponent)

\* IsInCheck, history.go 41-105, on the position of the game; at is -1 when no king
\* was found
inCheckOf(pos, kingSq) ==
  IF kingSq = NoSquare THEN [result |-> FALSE, at |-> -1]
  ELSE scanAttackers(pos.board, 0, kingSq, Other(pos.turn))

IsInCheck(pos) == inCheckOf(pos, findKing(pos.board, pos.turn, 0))

(***************************************************************************)
(* pkg/history/history.go 189-240: GetMoveHistorySAN                         *)
(***************************************************************************)
\* chess.AlgebraicNotation{}.Encode(pos, m): castling, or piece letter, origin
\* where another piece of the kind could go to the same square, x on a capture,
\* destination, promotion.  The library's own check mark is left out: the marks
\* modelled are the ones history.go appends.
Encode(pos, m) ==
  LET p == pos.board[m.s1]
      others == {q \in Squares \ {m.s1} : pos.board[q] = p /\ Legal(pos, q, m.s2, m.promo)}
      rankReq == \E q \in others : FileOf(q) = FileOf(m.s1)
      fileReq == \E q \in others : RankOf(q) = RankOf(m.s1)
      capture == "EnPassant" \in m.tags \/ (pos.board[m.s2] # NoPiece /\ pos.board[m.s2].c # p.c)
      origin == IF p.t = "P" THEN (IF capture THEN <<FileChars[FileOf(m.s1) + 1]>> ELSE <<>>)
                ELSE (IF fileReq \/ (~rankReq /\ others # {}) THEN <<FileChars[FileOf(m.s1) + 1]>> ELSE <<>>)
                     \o (IF rankReq THEN <<Digit(RankOf(m.s1) + 1)>> ELSE <<>>)
  IN IF "KingSideCastle" \in m.tags THEN <<"O", "-", "O">>
     ELSE IF "QueenSideCastle" \in m.tags THEN <<"O", "-", "O", "-", "O">>
     ELSE (IF p.t \in {"P", "-"} THEN <<>> ELSE <<p.t>>) \o origin
          \o (IF capture THEN <<"x">> ELSE <<>>) \o SquareString(m.s2)
          \o (IF m.promo = NoPromo THEN <<>> ELSE <<"=", m.promo>>)

\* game.Outcome() != chess.NoOutcome && game.Method() == chess.Checkmate: the side
\* to move is in check and has no valid move
Checkmate(pos) ==
  /\ InCheck(pos.board, pos.turn)
  /\ ~\E s1 \in {q \in Squares : pos.board[q].c = pos.turn} : \E s2 \in Squares : \E promo \in {NoPromo, "Q"} : Legal(pos, s1, s2, promo)

\* an annotation that knows no checkmate
annotationCheckOnly(after) == IF IsInCheck(after).result THEN <<"+">> ELSE <<>>

\* history.go 206-210: # for checkmate, else + for check, on the game after game.Move
annotation(after) ==
  IF Checkmate(after) THEN <<"#">>
  ELSE IF IsInCheck(after).result THEN <<"+">>
  ELSE <<>>

\* a rendering that drops a token that failed to decode and starts the game afresh
sanOfStrict(pos, token, d) ==
  IF d.err THEN [raw |-> token, decoded |-> FALSE, san |-> <<"?">>, mark |-> <<>>, pos |-> StartPos]
  ELSE [raw |-> token, decoded |-> TRUE, san |-> Encode(pos, d.move), mark |-> annotation(GameMove(pos, d.move).pos), pos |-> GameMove(pos, d.move).pos]

\* history.go 201-214 after Decode answered d: the text, its mark and the game after
\* game.Position() square by square
Position(pos) ==
  [ok |-> pos.ok, board |-> [q \in Squares |-> pos.board[q]], turn |-> pos.turn, castle |-> pos.castle, ep |-> pos.ep]

sanMoved(pos, token, m, after) ==
  [raw |-> token, decoded |-> TRUE, san |-> Encode(pos, m), mark |-> annotation(after), pos |-> after]

sanOf(pos, token, d) ==
  IF d.err THEN [raw |-> token, decoded |-> FALSE, san |-> token, mark |-> <<>>, pos |-> pos]
  ELSE sanMoved(pos, token, d.move, Position(GameMove(pos, d.move).pos))

\* history.go 199-214 and 217-231: one half of a line
sanHalf(pos, token, validates) == sanOf(pos, token, Decode(pos, token, validates))

\* a line that never has a Black half
sanLineWhiteOnly(moveNum, whiteSAN, blackSAN) == <<Digit(moveNum), ".", " ">> \o whiteSAN

\* history.go 233-237: fmt.Sprintf("%d. %s %s") or fmt.Sprintf("%d. %s")
sanLine(moveNum, whiteSAN, blackSAN) ==
  IF blackSAN # <<>> THEN <<Digit(moveNum), ".", " ">> \o whiteSAN \o <<" ">> \o blackSAN
  ELSE <<Digit(moveNum), ".", " ">> \o whiteSAN

\* the loop of history.go 195-238 from index i on, White's half already rendered
RECURSIVE sanLines(_, _, _, _)
sanAppend(line, halves, rest) == [text |-> <<line>> \o rest.text, halves |-> halves \o rest.halves]

sanPair(hist, i, validates, white, black) ==
  sanAppend(sanLine(i \div 2 + 1, white.san \o white.mark, black.san \o black.mark), <<white, black>>, sanLines(black.pos, hist, i + 2, validates))

sanBlack(hist, i, validates, white) ==
  IF i + 1 < Len(hist)
  THEN sanPair(hist, i, validates, white, sanHalf(white.pos, hist[i + 2], validates))
  ELSE [text |-> <<sanLine(i \div 2 + 1, white.san \o white.mark, <<>>)>>, halves |-> <<white>>]

sanLines(pos, hist, i, validates) ==
  IF i >= Len(hist) THEN [text |-> <<>>, halves |-> <<>>]
  ELSE sanBlack(hist, i, validates, sanHalf(pos, hist[i + 1], validates))

\* GetMoveHistorySAN, history.go 191-240, on the history hist
sanReturn(rendered) == [called |-> TRUE, text |-> rendered.text, halves |-> rendered.halves]

GetMoveHistorySAN(hist, validates) == sanReturn(sanLines(StartPos, hist, 0, validates))

(***************************************************************************)
(* pkg/history/history.go 11-37 as Go runs it: moves is a slice over a      *)
(* backing array, mu a mutex, and the callers are goroutines.               *)
(***************************************************************************)
\* the goroutines that call the package
Threads == {1, 2}

\* the tokens they append (history_test.go 11-12)
Tokens == { <<"e", "2", "e", "4">>, <<"e", "7", "e", "5">> }

\* what a caller writes into a slice it was given
Scribble == <<"x">>

\* the zero value of string
ZeroString == <<>>

\* a slice header: arr is the index of the backing array in heap, 0 for none
Slice(arr, len, cap) == [arr |-> arr, len |-> len, cap |-> cap]

\* var moves []string, and moves = nil
NilSlice == Slice(0, 0, 0)

\* the elements of slice h
Contents(hp, h) == [i \in 1..h.len |-> hp[h.arr][i]]

\* an append that drops the element
appendNothing(hp, h, move) == [heap |-> hp, slice |-> h]

\* append(h, move): in place while len < cap, else into a new array of twice the cap
append(hp, h, move) ==
  IF h.len < h.cap
  THEN [heap |-> [hp EXCEPT ![h.arr][h.len + 1] = move],
        slice |-> Slice(h.arr, h.len + 1, h.cap)]
  ELSE LET newcap == IF h.cap = 0 THEN 1 ELSE 2 * h.cap IN
       [heap |-> Append(hp, [i \in 1..newcap |->
                              IF i <= h.len THEN hp[h.arr][i]
                              ELSE IF i = h.len + 1 THEN move ELSE ZeroString]),
        slice |-> Slice(Len(hp) + 1, h.len + 1, newcap)]

\* a result that shares the backing array of src
makeShared(hp, src) == [heap |-> hp, slice |-> src]

\* make([]string, len(src)): a new array of zero strings
make(hp, src) ==
  [heap |-> Append(hp, [i \in 1..src.len |-> ZeroString]),
   slice |-> Slice(Len(hp) + 1, src.len, src.len)]

\* copy(dst, src): the first min(len(dst), len(src)) elements
copy(hp, dst, src) ==
  IF dst.len = 0 \/ src.len = 0 THEN hp
  ELSE [hp EXCEPT ![dst.arr] =
          [i \in 1..Len(hp[dst.arr]) |->
             IF i <= dst.len /\ i <= src.len THEN hp[src.arr][i] ELSE hp[dst.arr][i]]]

\* a goroutine outside the package
NoCall ==
  [op |-> "none", move |-> ZeroString, tmp |-> NilSlice, history |-> NilSlice,
   returned |-> FALSE, result |-> <<>>, atCopy |-> <<>>, seen |-> {},
   overwrote |-> FALSE, storedBefore |-> <<>>, storedAfter |-> <<>>]

\* the history package before any call
HistoryUnused ==
  /\ mu = 0
  /\ heap = <<>>
  /\ movesSlice = NilSlice
  /\ pc = [t \in Threads |-> "idle"]
  /\ local = [t \in Threads |-> NoCall]
  /\ logged = <<>>
  /\ calls = 0

(***************************************************************************)
(* main.go 171, 429-454: the history index; gui.go 305-315: the cursor       *)
(***************************************************************************)
\* historyPrev, main.go 429-440: the new historyIndex
prevIndex(hist, idx) ==
  IF Len(hist) = 0 THEN idx
  ELSE IF idx < 0 THEN Len(hist) - 1
  ELSE IF idx > 0 THEN idx - 1
  ELSE idx

\* a historyNext that runs past the end of the history
nextIndexNoReturn(hist, idx) == IF Len(hist) = 0 \/ idx < 0 THEN idx ELSE idx + 1

\* historyNext, main.go 442-454: the new historyIndex
nextIndex(hist, idx) ==
  IF Len(hist) = 0 THEN idx
  ELSE IF idx >= 0 THEN (IF idx + 1 >= Len(hist) THEN -1 ELSE idx + 1)
  ELSE idx

\* gui.Cursor{Row: 0, Col: 0}
NewCursor == [Row |-> 0, Col |-> 0, Selected |-> FALSE]

\* a Move that does not look at the board edge
CursorMoveFree(c, dRow, dCol) == [c EXCEPT !.Row = c.Row + dRow, !.Col = c.Col + dCol]

\* Cursor.Move, gui.go 305-315
CursorMove(c, dRow, dCol) ==
  [c EXCEPT !.Row = IF c.Row + dRow >= 0 /\ c.Row + dRow < 8 THEN c.Row + dRow ELSE c.Row,
            !.Col = IF c.Col + dCol >= 0 /\ c.Col + dCol < 8 THEN c.Col + dCol ELSE c.Col]

(***************************************************************************)
(* pkg/history/history.go 242-300: the websocket client and its two pumps   *)
(***************************************************************************)
\* the connections served
MaxClients == 2

\* the messages a ReadPump logs before the count stops
MaxMessages == 2

Clients == 1..MaxClients

\* make(chan []byte, 256), history.go 297; closes counts the calls of close
NewChan == [closed |-> FALSE, closes |-> 0, buf |-> <<>>]

\* a close that leaves the channel open
closeNothing(ch) == ch

\* close(c.Send), history.go 267
close(ch) == [ch EXCEPT !.closed = TRUE, !.closes = @ + 1]

\* no request has been served
WsUnused ==
  /\ readPump = [c \in Clients |-> "none"]
  /\ writePump = [c \in Clients |-> "none"]
  /\ Send = [c \in Clients |-> NewChan]
  /\ Conn = [c \in Clients |-> "none"]
  /\ received = [c \in Clients |-> 0]

\* the view of main.go and the websocket clients at program start
UiUnused ==
  /\ historyIndex = -1
  /\ cursor = NewCursor
  /\ BoardFlipped = FALSE
  /\ WsUnused

\* IsInCheck and GetMoveHistorySAN before any call
SanUnused ==
  /\ sanGame = StartPos
  /\ checked = NotChecked
  /\ lines = NoLines

(***************************************************************************)
(* handlers                                                                 *)
(***************************************************************************)
\* a turn switch that switches nothing
Stay(t) == t

\* the turn switch of dropPiece and engineMove (main.go 321-325, 420-424)
Flip(t) == IF t = White THEN Black ELSE White

\* no string has been parsed yet
NoBoard == [op |-> "none", panic |-> FALSE, board |-> NewChessBoard]

NoEvent == [handler |-> "none", selected |-> FALSE, turn0 |-> White, calls |-> <<>>, reply |-> <<>>]

\* the record of one MovePiece call made by a handler
CallRec(fromRow, fromCol, toRow, toCol, t, b, hist, epRow, epCol, out, turnAfter) ==
  [fromRow |-> fromRow, fromCol |-> fromCol, toRow |-> toRow, toCol |-> toCol, turn |-> t,
   pre |-> [board |-> b, moves |-> hist, enPassantRow |-> epRow, enPassantCol |-> epCol],
   out |-> out, turnAfter |-> turnAfter]

\* int(bestMove[k] - 'a') and int(bestMove[k] - '0'): byte subtraction wraps at 256
ByteSub(ch, base) == (ByteOf(ch) - base) % 256

\* `if board.MovePiece(...) { switch turn }` of main.go 319-325 and 419-425: what the
\* handler has done once the call has answered out
Moved(fromRow, fromCol, toRow, toCol, t, b, hist, epRow, epCol, out) ==
  [calls |-> <<CallRec(fromRow, fromCol, toRow, toCol, t, b, hist, epRow, epCol, out,
                       IF out.ret THEN Flip(t) ELSE t)>>,
   board |-> out.board, moves |-> out.moves, enPassantRow |-> out.enPassantRow,
   enPassantCol |-> out.enPassantCol, turn |-> IF out.ret THEN Flip(t) ELSE t,
   panic |-> out.panic, n |-> IF out.ret THEN 1 ELSE 0, reply |-> <<>>]

\* engineMove, main.go 403-427, on the answer reply of engine.GetBestMove: the
\* calls made and the game state left
\* the answer the handler worked on, kept with what it did
Replied(r, reply) == [r EXCEPT !.reply = reply]

\* an engineMove that folds every byte onto the board
engineMoveRunFolded(b, hist, epRow, epCol, t, validates, reply) ==
  IF Len(reply) < 4
  THEN [calls |-> <<>>, board |-> b, moves |-> hist, enPassantRow |-> epRow,
        enPassantCol |-> epCol, turn |-> t, panic |-> FALSE, n |-> 0, reply |-> reply]
  ELSE Replied(Moved((8 - ByteSub(reply[2], 48)) % 8, ByteSub(reply[1], 97) % 8,
                     (8 - ByteSub(reply[4], 48)) % 8, ByteSub(reply[3], 97) % 8, t, b, hist, epRow, epCol,
                     MovePiece(b, hist, epRow, epCol, validates,
                               (8 - ByteSub(reply[2], 48)) % 8, ByteSub(reply[1], 97) % 8,
                               (8 - ByteSub(reply[4], 48)) % 8, ByteSub(reply[3], 97) % 8, t)), reply)

engineMoveRun(b, hist, epRow, epCol, t, validates, reply) ==
  IF Len(reply) < 4
  THEN [calls |-> <<>>, board |-> b, moves |-> hist, enPassantRow |-> epRow,
        enPassantCol |-> epCol, turn |-> t, panic |-> FALSE, n |-> 0, reply |-> reply]
  ELSE Replied(Moved(8 - ByteSub(reply[2], 48), ByteSub(reply[1], 97),
                     8 - ByteSub(reply[4], 48), ByteSub(reply[3], 97), t, b, hist, epRow, epCol,
                     MovePiece(b, hist, epRow, epCol, validates,
                               8 - ByteSub(reply[2], 48), ByteSub(reply[1], 97),
                               8 - ByteSub(reply[4], 48), ByteSub(reply[3], 97), t)), reply)

\* the automove test of dropPiece, main.go 327
AutomoveDue(cfg, t) ==
  cfg.Automove /\ ((cfg.EngineColor = "white" /\ t = White)
                   \/ (cfg.EngineColor = "black" /\ t = Black))

\* the engineMove that dropPiece calls (main.go 328), run after the drop r
Chain(r, e) == [e EXCEPT !.calls = r.calls \o @, !.n = r.n + @]

\* assignment of a handler's result to the game state
Becomes(r, handler, sel) ==
  /\ board' = r.board
  /\ moves' = r.moves
  /\ enPassantRow' = r.enPassantRow
  /\ enPassantCol' = r.enPassantCol
  /\ turn' = r.turn
  /\ crashed' = r.panic
  /\ played' = played + r.n
  /\ ev' = [handler |-> handler, selected |-> sel, turn0 |-> turn, calls |-> r.calls, reply |-> r.reply]
  /\ UNCHANGED <<LoadedEngineConfig, decodeValidates, pkgVars>>

Ready == ~crashed /\ ev = NoEvent

\* main.go 320-330: the rest of dropPiece after its MovePiece call
dropDone(r) ==
  IF r.n = 1 /\ AutomoveDue(LoadedEngineConfig, r.turn)
  THEN \E reply \in EngineReplies :
         Becomes(Chain(r, engineMoveRun(r.board, r.moves, r.enPassantRow, r.enPassantCol,
                                        r.turn, decodeValidates, reply)),
                 "dropPiece", TRUE)
  ELSE Becomes(r, "dropPiece", TRUE)

\* main.go 317-319: the drops of one frame, chessFen being the position MovePiece
\* builds from the board
dropOn(chessFen) ==
  \E mv \in InMoves :
    dropDone(Moved(mv[1], mv[2], mv[3], mv[4], turn, board, moves, enPassantRow,
                   enPassantCol,
                   MovePieceOn(board, moves, enPassantRow, enPassantCol, chessFen,
                               decodeValidates, mv[1], mv[2], mv[3], mv[4], turn)))

\* dropPiece, main.go 317-333; the selection and the cursor are the pointer state of
\* the UI at the key press
dropPiece ==
  /\ Ready
  /\ played < MaxPlies
  /\ \/ /\ ev' = [NoEvent EXCEPT !.handler = "dropPiece", !.turn0 = turn]
        /\ UNCHANGED <<board, turn, moves, enPassantRow, enPassantCol,
                       LoadedEngineConfig, decodeValidates, crashed, played, pkgVars>>
     \/ dropOn(FEN(ToFEN(board, turn, enPassantRow, enPassantCol)))

\* engineMove bound to its key, main.go 403-427
engineMove ==
  /\ Ready
  /\ played < MaxPlies
  /\ \E reply \in EngineReplies :
       Becomes(engineMoveRun(board, moves, enPassantRow, enPassantCol, turn,
                             decodeValidates, reply), "engineMove", FALSE)

\* reset, main.go 339-346 (its own call of layout draws the same frame)
reset ==
  /\ Ready
  /\ board' = NewChessBoard
  /\ turn' = White
  /\ moves' = ClearHistory
  /\ cursor' = NewCursor
  /\ ev' = [NoEvent EXCEPT !.handler = "reset", !.turn0 = turn]
  /\ UNCHANGED <<enPassantRow, enPassantCol, LoadedEngineConfig, decodeValidates, crashed,
                 played, guiVars, histVars, sanVars, navVars, BoardFlipped, wsVars>>

\* chess.PGN on a file holding the moves game: the moves decoded and played from
\* the starting position
RECURSIVE ReplayGame(_, _, _, _)
ReplayGame(pos, game, k, texts) ==
  IF k > Len(game) THEN [ok |-> TRUE, pos |-> pos, texts |-> texts]
  ELSE LET dec == Decode(pos, game[k], TRUE) IN
       IF dec.err THEN [ok |-> FALSE, pos |-> pos, texts |-> texts]
       ELSE ReplayGame(PositionUpdate(pos, dec.move), game, k + 1,
                       Append(texts, MoveString(dec.move)))

\* main.go 596-602: the history and the board taken from the parsed game
loadParsed(parsed, loaded) ==
  IF ~parsed.ok THEN UNCHANGED vars
  ELSE /\ moves' = parsed.texts
       /\ board' = (IF loaded.panic THEN board ELSE loaded.board)
       /\ crashed' = loaded.panic
       /\ ev' = [NoEvent EXCEPT !.handler = "handleLoadGame", !.turn0 = turn]
       /\ UNCHANGED <<turn, enPassantRow, enPassantCol, LoadedEngineConfig,
                      decodeValidates, played, pkgVars>>

\* the board of main.go 602
loadedBoard(parsed) == NewChessBoardFromFEN(PositionString(parsed.pos))

\* handleLoadGame, main.go 557-610, on a readable file
handleLoadGame ==
  /\ Ready
  /\ \E game \in LoadGames :
       loadParsed(ReplayGame(StartPos, game, 1, <<>>),
                  loadedBoard(ReplayGame(StartPos, game, 1, <<>>)))

\* the replay of the history in layout, main.go 240-246, from token k on: a token is
\* decoded and, when that succeeds, played; failed counts the tokens that were not
RECURSIVE replayHistory(_, _, _, _)
replayHistory(pos, hist, k, validates) ==
  IF k > Len(hist) THEN [pos |-> pos, failed |-> 0]
  ELSE LET dec == Decode(pos, hist[k], validates) IN
       IF dec.err \/ GameMove(pos, dec.move).err
       THEN [replayHistory(pos, hist, k + 1, validates) EXCEPT !.failed = @ + 1]
       ELSE replayHistory(GameMove(pos, dec.move).pos, hist, k + 1, validates)

\* layout, main.go 192-292: the frame is redrawn after the handler returns
layout ==
  /\ ~crashed
  /\ ev # NoEvent
  /\ ev' = NoEvent
  /\ UNCHANGED <<board, turn, moves, enPassantRow, enPassantCol, LoadedEngineConfig,
                 decodeValidates, crashed, played, pkgVars>>

EngineConfigs ==
  { [Automove |-> FALSE, EngineColor |-> ""],
    [Automove |-> TRUE, EngineColor |-> "white"],
    [Automove |-> TRUE, EngineColor |-> "black"] }

Init ==
  /\ board = NewChessBoard
  /\ turn = White
  /\ moves = <<>>
  /\ enPassantRow = -1
  /\ enPassantCol = -1
  /\ LoadedEngineConfig \in EngineConfigs
  /\ decodeValidates \in BOOLEAN
  /\ crashed = FALSE
  /\ played = 0
  /\ ev = NoEvent
  /\ fenStr = <<>>
  /\ tmpBoard = NoBoard
  /\ HistoryUnused
  /\ SanUnused
  /\ UiUnused

Next == dropPiece \/ engineMove \/ reset \/ handleLoadGame \/ layout

Spec == Init /\ [][Next]_vars

(***************************************************************************)
(* The conversions of pkg/gui on their own: a caller holds a board, exports *)
(* it with ToFEN and parses a string with NewChessBoardFromFEN.             *)
(***************************************************************************)
\* a row of the array from the eight pieces of t
RowOf(t) == [j \in Idx |-> t[j + 1]]

EmptyRow == [j \in Idx |-> EmptyPiece]

\* rows of the first and the last rank: kings and rooks on and off their home squares
EdgeRows ==
  { NewChessBoard[0], NewChessBoard[7], EmptyRow,
    RowOf(<<Piece(Black, Rook), EmptyPiece, EmptyPiece, EmptyPiece, Piece(Black, King),
            EmptyPiece, EmptyPiece, Piece(Black, Rook)>>),
    RowOf(<<Piece(White, Rook), EmptyPiece, EmptyPiece, EmptyPiece, Piece(White, King),
            EmptyPiece, EmptyPiece, Piece(White, Rook)>>),
    RowOf(<<Piece(Black, Rook), EmptyPiece, EmptyPiece, EmptyPiece, Piece(Black, King),
            EmptyPiece, Piece(White, Knight), EmptyPiece>>),
    RowOf(<<EmptyPiece, EmptyPiece, EmptyPiece, Piece(Black, Queen), Piece(White, King),
            EmptyPiece, EmptyPiece, Piece(White, Rook)>>),
    RowOf(<<Piece(White, Rook), EmptyPiece, EmptyPiece, Piece(White, King), EmptyPiece,
            EmptyPiece, EmptyPiece, Piece(Black, Rook)>>) }

\* a row with pieces of both colours between runs of Empty squares
MixedRow ==
  RowOf(<<EmptyPiece, Piece(White, Pawn), EmptyPiece, EmptyPiece, Piece(Black, Pawn),
          Piece(Black, Knight), EmptyPiece, Piece(White, Queen)>>)

\* a row as NewChessBoardFromFEN leaves it for "p?Q": an Empty square with a colour
\* and the zero pieces of the squares it never wrote
ColouredEmptyRow ==
  RowOf(<<Piece(Black, Pawn), Piece(Black, Empty), Piece(White, Queen), ZeroPiece,
          ZeroPiece, ZeroPiece, ZeroPiece, ZeroPiece>>)

\* the boards a caller may hold
TestBoards ==
  { [i \in Idx |-> CASE i = 0 -> r0 [] i = 1 -> r1 [] i = 6 -> r6 [] i = 7 -> r7
                     [] OTHER -> EmptyRow] :
      r0 \in EdgeRows, r1 \in {NewChessBoard[1], MixedRow, ColouredEmptyRow},
      r6 \in {NewChessBoard[6], MixedRow}, r7 \in EdgeRows }

\* the en-passant targets the tracker may hold
TestTargets == { <<-1, -1>>, <<5, 4>>, <<2, 3>> }

\* strings that are no placement of 64 squares
FenTexts ==
  { <<"p", "p", "p", "p", "p", "8">>,
    <<"8", "/", "8">>,
    <<"r", "n", "b", "q", "k", "b", "n", "r", "r", "/", "9">>,
    <<"x", "7", "/", "P", "?", "6">>,
    <<"4", "k", "/", "/", "/", "/", "/", "/", "/", "/", "/", "K", "7">>,
    <<"4", "5">>,
    <<"p", "p", "p", "p", "p", "p", "p", "p">>,
    <<>> }

\* fen := board.ToFEN(turn), main.go 404 and gui.go 161
exportFEN ==
  /\ fenStr = <<>>
  /\ tmpBoard = NoBoard
  /\ fenStr' = ToFEN(board, turn, enPassantRow, enPassantCol)
  /\ UNCHANGED <<board, turn, moves, enPassantRow, enPassantCol, LoadedEngineConfig,
                 decodeValidates, crashed, played, ev, tmpBoard, histVars, sanVars, uiVars>>

\* NewChessBoardFromFEN on the string exported before
parseFEN ==
  /\ fenStr # <<>>
  /\ tmpBoard = NoBoard
  /\ tmpBoard' = [op |-> "roundtrip", panic |-> NewChessBoardFromFEN(fenStr).panic,
                  board |-> NewChessBoardFromFEN(fenStr).board]
  /\ UNCHANGED <<board, turn, moves, enPassantRow, enPassantCol, LoadedEngineConfig,
                 decodeValidates, crashed, played, ev, fenStr, histVars, sanVars, uiVars>>

\* NewChessBoardFromFEN on a string that comes from elsewhere
parseText ==
  /\ fenStr = <<>>
  /\ tmpBoard = NoBoard
  /\ \E text \in FenTexts :
       /\ fenStr' = text
       /\ tmpBoard' = [op |-> "text", panic |-> NewChessBoardFromFEN(text).panic,
                       board |-> NewChessBoardFromFEN(text).board]
  /\ UNCHANGED <<board, turn, moves, enPassantRow, enPassantCol, LoadedEngineConfig,
                 decodeValidates, crashed, played, ev, histVars, sanVars, uiVars>>

GuiInit ==
  /\ board \in TestBoards
  /\ turn \in {Black, White}
  /\ \E target \in TestTargets : enPassantRow = target[1] /\ enPassantCol = target[2]
  /\ moves = <<>>
  /\ LoadedEngineConfig = [Automove |-> FALSE, EngineColor |-> ""]
  /\ decodeValidates = FALSE
  /\ crashed = FALSE
  /\ played = 0
  /\ ev = NoEvent
  /\ fenStr = <<>>
  /\ tmpBoard = NoBoard
  /\ HistoryUnused
  /\ SanUnused
  /\ UiUnused

GuiNext == exportFEN \/ parseFEN \/ parseText

GuiSpec == GuiInit /\ [][GuiNext]_vars

(***************************************************************************)
(* The history package called from several goroutines.  A call takes the   *)
(* mutex, runs its body statement by statement and releases the mutex on    *)
(* return (defer mu.Unlock()).                                              *)
(***************************************************************************)
\* calls of the package per run of the model
MaxCalls == 4

\* the handler and package state the history package does not touch
HistoryFrame ==
  UNCHANGED <<board, turn, moves, enPassantRow, enPassantCol, LoadedEngineConfig,
              decodeValidates, crashed, played, ev, guiVars, sanVars, uiVars>>

\* a mutex that never blocks
CanLockAlways(m) == TRUE

\* mu.Lock() goes through when the mutex is unlocked
CanLock(m) == m = 0

\* the goroutines inside a GetHistory call take note of the history written
Noted(t, hist) ==
  [u \in Threads |->
     IF u # t /\ local[u].op = "GetHistory" /\ pc[u] # "idle"
     THEN [local[u] EXCEPT !.seen = @ \cup {hist}] ELSE local[u]]

\* goroutine t calls AddMove(move), GetHistory() or ClearHistory()
call(t) ==
  /\ pc[t] = "idle"
  /\ calls < MaxCalls
  /\ \E op \in {"AddMove", "GetHistory", "ClearHistory"} :
       \E move \in (IF op = "AddMove" THEN Tokens ELSE {ZeroString}) :
         local' = [local EXCEPT ![t] = [NoCall EXCEPT !.op = op, !.move = move,
                                                      !.seen = {logged}]]
  /\ pc' = [pc EXCEPT ![t] = "lock"]
  /\ calls' = calls + 1
  /\ UNCHANGED <<mu, heap, movesSlice, logged>>
  /\ HistoryFrame

\* mu.Lock(), history.go 18, 25, 34
lock(t) ==
  /\ pc[t] = "lock"
  /\ CanLock(mu)
  /\ mu' = t
  /\ pc' = [pc EXCEPT ![t] = "body"]
  /\ UNCHANGED <<heap, movesSlice, local, logged, calls>>
  /\ HistoryFrame

\* AddMove, history.go 20: the operand moves of append is read
addRead(t) ==
  /\ pc[t] = "body"
  /\ local[t].op = "AddMove"
  /\ local' = [local EXCEPT ![t].tmp = movesSlice]
  /\ pc' = [pc EXCEPT ![t] = "write"]
  /\ UNCHANGED <<mu, heap, movesSlice, logged, calls>>
  /\ HistoryFrame

\* AddMove, history.go 20: moves = append(moves, move)
addWrite(t) ==
  /\ pc[t] = "write"
  /\ local[t].op = "AddMove"
  /\ heap' = append(heap, local[t].tmp, local[t].move).heap
  /\ movesSlice' = append(heap, local[t].tmp, local[t].move).slice
  /\ logged' = Append(logged, local[t].move)
  /\ local' = Noted(t, Append(logged, local[t].move))
  /\ pc' = [pc EXCEPT ![t] = "unlock"]
  /\ UNCHANGED <<mu, calls>>
  /\ HistoryFrame

\* GetHistory, history.go 27: history := make([]string, len(moves))
getMake(t) ==
  /\ pc[t] = "body"
  /\ local[t].op = "GetHistory"
  /\ heap' = make(heap, movesSlice).heap
  /\ local' = [local EXCEPT ![t].history = make(heap, movesSlice).slice]
  /\ pc' = [pc EXCEPT ![t] = "copy"]
  /\ UNCHANGED <<mu, movesSlice, logged, calls>>
  /\ HistoryFrame

\* GetHistory, history.go 28: copy(history, moves)
getCopy(t) ==
  /\ pc[t] = "copy"
  /\ heap' = copy(heap, local[t].history, movesSlice)
  /\ local' = [local EXCEPT ![t].atCopy = logged]
  /\ pc' = [pc EXCEPT ![t] = "unlock"]
  /\ UNCHANGED <<mu, movesSlice, logged, calls>>
  /\ HistoryFrame

\* ClearHistory, history.go 36: moves = nil
clearWrite(t) ==
  /\ pc[t] = "body"
  /\ local[t].op = "ClearHistory"
  /\ movesSlice' = NilSlice
  /\ logged' = <<>>
  /\ local' = Noted(t, <<>>)
  /\ pc' = [pc EXCEPT ![t] = "unlock"]
  /\ UNCHANGED <<mu, heap, calls>>
  /\ HistoryFrame

\* the deferred mu.Unlock() and the return, history.go 19, 26, 29, 35
unlock(t) ==
  /\ pc[t] = "unlock"
  /\ mu' = 0
  /\ local' = [local EXCEPT ![t].returned = TRUE,
                            ![t].result = IF local[t].op = "GetHistory"
                                          THEN Contents(heap, local[t].history) ELSE <<>>]
  /\ pc' = [pc EXCEPT ![t] = "idle"]
  /\ UNCHANGED <<heap, movesSlice, logged, calls>>
  /\ HistoryFrame

\* the caller of GetHistory writes into the slice it was given (h[0] = ...)
overwrite(t) ==
  /\ pc[t] = "idle"
  /\ local[t].op = "GetHistory"
  /\ local[t].returned
  /\ ~local[t].overwrote
  /\ local[t].history.len > 0
  /\ heap' = [heap EXCEPT ![local[t].history.arr][1] = Scribble]
  /\ local' = [local EXCEPT ![t].overwrote = TRUE,
                            ![t].result = [@ EXCEPT ![1] = Scribble],
                            ![t].storedBefore = Contents(heap, movesSlice),
                            ![t].storedAfter = Contents(heap', movesSlice)]
  /\ UNCHANGED <<mu, movesSlice, pc, logged, calls>>
  /\ HistoryFrame

HistoryInit ==
  /\ board = NewChessBoard
  /\ turn = White
  /\ moves = <<>>
  /\ enPassantRow = -1
  /\ enPassantCol = -1
  /\ LoadedEngineConfig = [Automove |-> FALSE, EngineColor |-> ""]
  /\ decodeValidates = FALSE
  /\ crashed = FALSE
  /\ played = 0
  /\ ev = NoEvent
  /\ fenStr = <<>>
  /\ tmpBoard = NoBoard
  /\ HistoryUnused
  /\ SanUnused
  /\ UiUnused

HistoryNext ==
  \E t \in Threads :
    \/ call(t) \/ lock(t) \/ addRead(t) \/ addWrite(t) \/ getMake(t) \/ getCopy(t)
    \/ clearWrite(t) \/ unlock(t) \/ overwrite(t)

HistorySpec == HistoryInit /\ [][HistoryNext]_vars

(***************************************************************************)
(* IsInCheck on test positions: a king of the side to move, one opposing    *)
(* piece on any square, a piece of the king's own colour that may stand in  *)
(* between, and a second opposing piece                                     *)
(***************************************************************************)
\* a1, d4, h5, and no king of the side to move
KingSquares == {0, 27, 39, NoSquare}

\* b2, c3, e4, h4, d5, and no such piece
OwnSquares == {9, 18, 28, 31, 35, NoSquare}

\* a rook on a8, or no second opposing piece
SecondSquares == {56, NoSquare}

TestBoard(c, k, t, q, o, x) ==
  [sq \in Squares |->
     IF sq = q THEN OPiece(Other(c), t)
     ELSE IF sq = k THEN OPiece(c, "K")
     ELSE IF sq = o THEN OPiece(c, "N")
     ELSE IF sq = x THEN OPiece(Other(c), "R")
     ELSE NoPiece]

TestPosition(c, k, t, q, o, x) ==
  [ok |-> TRUE, board |-> TestBoard(c, k, t, q, o, x), turn |-> c, castle |-> {}, ep |-> NoSquare]

TestPositions ==
  { TestPosition(a[1], a[2], a[3], a[4], a[5], a[6]) :
      a \in { y \in {"w", "b"} \X KingSquares \X {"P", "N", "B", "R", "Q", "K"} \X Squares \X OwnSquares \X SecondSquares :
                /\ y[4] # y[2]
                /\ y[5] = NoSquare \/ y[5] \notin {y[2], y[4]}
                /\ y[6] = NoSquare \/ y[6] \notin {y[2], y[4], y[5]} } }
    \cup {StartPos, [StartPos EXCEPT !.turn = "b"]}

\* a caller asks whether the side to move is in check
detect ==
  /\ checked = NotChecked
  /\ checked' = IsInCheck(sanGame)
  /\ UNCHANGED <<board, turn, moves, enPassantRow, enPassantCol, LoadedEngineConfig,
                 decodeValidates, crashed, played, ev, guiVars, histVars, sanGame, lines, uiVars>>

CheckInit ==
  /\ board = NewChessBoard
  /\ turn = White
  /\ moves = <<>>
  /\ enPassantRow = -1
  /\ enPassantCol = -1
  /\ LoadedEngineConfig = [Automove |-> FALSE, EngineColor |-> ""]
  /\ decodeValidates = FALSE
  /\ crashed = FALSE
  /\ played = 0
  /\ ev = NoEvent
  /\ fenStr = <<>>
  /\ tmpBoard = NoBoard
  /\ HistoryUnused
  /\ sanGame \in TestPositions
  /\ checked = NotChecked
  /\ lines = NoLines
  /\ UiUnused

CheckNext == detect

CheckSpec == CheckInit /\ [][CheckNext]_vars

(***************************************************************************)
(* GetMoveHistorySAN on test histories                                      *)
(***************************************************************************)
\* the longest test history
MaxTokens == 4

\* the tokens of history_test.go 32-33 and 47, and the moves of the shortest mate
TestTokens ==
  { <<"e", "2", "e", "4">>, <<"e", "7", "e", "5">>, <<"i", "n", "v", "a", "l", "i", "d">>,
    <<"f", "2", "f", "3">>, <<"g", "2", "g", "4">>, <<"d", "8", "h", "4">> }

TestHistories == UNION { [1..n -> TestTokens] : n \in 0..MaxTokens }

\* the history view asks for the lines
renderSAN ==
  /\ ~lines.called
  /\ lines' = GetMoveHistorySAN(moves, decodeValidates)
  /\ UNCHANGED <<board, turn, moves, enPassantRow, enPassantCol, LoadedEngineConfig,
                 decodeValidates, crashed, played, ev, guiVars, histVars, sanGame, checked, uiVars>>

SanInit ==
  /\ board = NewChessBoard
  /\ turn = White
  /\ moves \in TestHistories
  /\ enPassantRow = -1
  /\ enPassantCol = -1
  /\ LoadedEngineConfig = [Automove |-> FALSE, EngineColor |-> ""]
  /\ decodeValidates \in BOOLEAN
  /\ crashed = FALSE
  /\ played = 0
  /\ ev = NoEvent
  /\ fenStr = <<>>
  /\ tmpBoard = NoBoard
  /\ HistoryUnused
  /\ SanUnused
  /\ UiUnused

SanNext == renderSAN

SanSpec == SanInit /\ [][SanNext]_vars

(***************************************************************************)
(* main.go 429-454: the game with the history navigation keys               *)
(***************************************************************************)
\* what the handlers of the navigation keys leave alone
NavFrame ==
  UNCHANGED <<board, turn, moves, enPassantRow, enPassantCol, LoadedEngineConfig,
              decodeValidates, crashed, played, guiVars, histVars, sanVars, curVars, wsVars>>

\* historyPrev, main.go 429-440
historyPrev ==
  /\ Ready
  /\ historyIndex' = prevIndex(moves, historyIndex)
  /\ ev' = [NoEvent EXCEPT !.handler = "historyPrev", !.turn0 = turn]
  /\ NavFrame

\* historyNext, main.go 442-454
historyNext ==
  /\ Ready
  /\ historyIndex' = nextIndex(moves, historyIndex)
  /\ ev' = [NoEvent EXCEPT !.handler = "historyNext", !.turn0 = turn]
  /\ NavFrame

\* a game without the engine's automove
NavInit == Init /\ ~LoadedEngineConfig.Automove

NavNext == dropPiece \/ engineMove \/ reset \/ handleLoadGame \/ layout \/ historyPrev \/ historyNext

NavSpec == NavInit /\ [][NavNext]_vars

(***************************************************************************)
(* main.go 300-305, 349-401: the cursor keys                                *)
(***************************************************************************)
\* moveCursor, main.go 300-305
moveCursor(dRow, dCol) ==
  /\ ~crashed
  /\ cursor' = CursorMove(cursor, dRow, dCol)
  /\ UNCHANGED <<board, turn, moves, enPassantRow, enPassantCol, LoadedEngineConfig,
                 decodeValidates, crashed, played, ev, guiVars, histVars, sanVars, navVars,
                 BoardFlipped, wsVars>>

moveLeft == IF BoardFlipped THEN moveCursor(0, 1) ELSE moveCursor(0, -1)

moveRight == IF BoardFlipped THEN moveCursor(0, -1) ELSE moveCursor(0, 1)

moveUp == IF BoardFlipped THEN moveCursor(1, 0) ELSE moveCursor(-1, 0)

moveDown == IF BoardFlipped THEN moveCursor(-1, 0) ELSE moveCursor(1, 0)

\* switchBoard, main.go 353-356, and gui.ToggleBoardOrientation, gui.go 544-546
switchBoard ==
  /\ ~crashed
  /\ BoardFlipped' = ~BoardFlipped
  /\ UNCHANGED <<board, turn, moves, enPassantRow, enPassantCol, LoadedEngineConfig,
                 decodeValidates, crashed, played, ev, guiVars, histVars, sanVars, navVars,
                 cursor, wsVars>>

CursorNext == moveLeft \/ moveRight \/ moveUp \/ moveDown \/ switchBoard \/ reset \/ layout

CursorSpec == Init /\ [][CursorNext]_vars

(***************************************************************************)
(* history.go 260-300: ServeWs, ReadPump and WritePump of each client        *)
(***************************************************************************)
WsFrame ==
  UNCHANGED <<board, turn, moves, enPassantRow, enPassantCol, LoadedEngineConfig,
              decodeValidates, crashed, played, ev, guiVars, histVars, sanVars, navVars, curVars>>

\* ServeWs, history.go 291-300: the upgrade fails and ServeWs returns, or the client
\* is made, WritePump is started as a goroutine and ReadPump runs
ServeWs(c) ==
  /\ readPump[c] = "none"
  /\ \/ /\ readPump' = [readPump EXCEPT ![c] = "refused"]
        /\ UNCHANGED <<writePump, Send, Conn, received>>
     \/ /\ Conn' = [Conn EXCEPT ![c] = "open"]
        /\ Send' = [Send EXCEPT ![c] = NewChan]
        /\ writePump' = [writePump EXCEPT ![c] = "range"]
        /\ readPump' = [readPump EXCEPT ![c] = "read"]
        /\ UNCHANGED received
  /\ WsFrame

\* history.go 271-276: ReadMessage returns a message, which is logged
ReadMessage(c) ==
  /\ readPump[c] = "read"
  /\ Conn[c] = "open"
  /\ received[c] < MaxMessages
  /\ received' = [received EXCEPT ![c] = @ + 1]
  /\ UNCHANGED <<readPump, writePump, Send, Conn>>
  /\ WsFrame

\* history.go 271-275: ReadMessage returns an error (the peer is gone or the
\* connection has been closed) and the loop is left
ReadFails(c) ==
  /\ readPump[c] = "read"
  /\ readPump' = [readPump EXCEPT ![c] = "closeSend"]
  /\ UNCHANGED <<writePump, Send, Conn, received>>
  /\ WsFrame

\* history.go 267: the deferred close(c.Send)
ReadPumpCloseSend(c) ==
  /\ readPump[c] = "closeSend"
  /\ Send' = [Send EXCEPT ![c] = close(Send[c])]
  /\ readPump' = [readPump EXCEPT ![c] = "closeConn"]
  /\ UNCHANGED <<writePump, Conn, received>>
  /\ WsFrame

\* history.go 268: the deferred c.Conn.Close(), then ReadPump and ServeWs return
ReadPumpCloseConn(c) ==
  /\ readPump[c] = "closeConn"
  /\ Conn' = [Conn EXCEPT ![c] = "closed"]
  /\ readPump' = [readPump EXCEPT ![c] = "done"]
  /\ UNCHANGED <<writePump, Send, received>>
  /\ WsFrame

\* history.go 283-288: `for msg := range c.Send` takes a message and writes it, the
\* write failing on a closed connection, or finds the channel closed and empty
WritePumpRange(c) ==
  /\ writePump[c] = "range"
  /\ Send[c].buf # <<>> \/ Send[c].closed
  /\ IF Send[c].buf # <<>>
     THEN /\ Send' = [Send EXCEPT ![c].buf = Tail(@)]
          /\ writePump' = [writePump EXCEPT ![c] = IF Conn[c] = "open" THEN "range" ELSE "closeConn"]
     ELSE /\ writePump' = [writePump EXCEPT ![c] = "closeConn"]
          /\ UNCHANGED Send
  /\ UNCHANGED <<readPump, Conn, received>>
  /\ WsFrame

\* history.go 282: the deferred c.Conn.Close(), then the goroutine ends
WritePumpCloseConn(c) ==
  /\ writePump[c] = "closeConn"
  /\ Conn' = [Conn EXCEPT ![c] = "closed"]
  /\ writePump' = [writePump EXCEPT ![c] = "done"]
  /\ UNCHANGED <<readPump, Send, received>>
  /\ WsFrame

WsNext ==
  \E c \in Clients :
    \/ ServeWs(c)
    \/ ReadMessage(c)
    \/ ReadFails(c)
    \/ ReadPumpCloseSend(c)
    \/ ReadPumpCloseConn(c)
    \/ WritePumpRange(c)
    \/ WritePumpCloseConn(c)

\* a goroutine that can take a step of its own takes it; when the peer stops
\* sending or fails is up to the peer
WsFair ==
  \A c \in Clients :
    /\ WF_vars(ReadPumpCloseSend(c))
    /\ WF_vars(ReadPumpCloseConn(c))
    /\ WF_vars(WritePumpRange(c))
    /\ WF_vars(WritePumpCloseConn(c))

\* the websocket package reads nothing of the game: one engine configuration and
\* one library behaviour stand for all
WsInit == Init /\ ~LoadedEngineConfig.Automove /\ decodeValidates

WsSpec == WsInit /\ [][WsNext]_vars /\ WsFair

(***************************************************************************)
(* Properties.  They read the record ev of the handler that ran last: every *)
(* MovePiece call it made, with the arguments, the state before the call    *)
(* (pre) and what the call left (out).                                      *)
(***************************************************************************)
Calls == {ev.calls[k] : k \in DOMAIN ev.calls}

CallInRange(c) == {c.fromRow, c.fromCol, c.toRow, c.toCol} \subseteq Idx

SourcePiece(c) == c.pre.board[c.fromRow][c.fromCol]

NoChange(c) ==
  /\ c.out.board = c.pre.board
  /\ c.out.moves = c.pre.moves
  /\ c.out.enPassantRow = c.pre.enPassantRow
  /\ c.out.enPassantCol = c.pre.enPassantCol

\* the en-passant target a successful call c has to leave
TargetAfter(c) ==
  IF SourcePiece(c).Type = Pawn /\ abs(c.fromRow - c.toRow) = 2 /\ c.fromCol = c.toCol
  THEN <<IF SourcePiece(c).Color = White THEN c.toRow + 1 ELSE c.toRow - 1, c.toCol>>
  ELSE <<-1, -1>>

\* the position MovePiece builds for call c
CallPos(c) == FEN(ToFEN(c.pre.board, c.turn, c.pre.enPassantRow, c.pre.enPassantCol))

\* the texts MovePiece may hand to Decode during call c
CallTexts(c) ==
  { PromoStr(SourcePiece(c), c.fromRow, c.fromCol, c.toRow, c.toCol),
    <<"e", "1", "g", "1">>, <<"e", "8", "g", "8">>, <<"e", "1", "c", "1">>,
    <<"e", "8", "c", "8">> }

\* the oracle has decoded a text without error (dec), has applied the move to pos,
\* and call c left the resulting board and logged that move
OracleDid(c, pos, dec) ==
  /\ ~dec.err
  /\ ~GameMove(pos, dec.move).err
  /\ c.out.board = updateBoardFromGame(GameMove(pos, dec.move).pos)
  /\ c.out.moves = Append(c.pre.moves, MoveString(dec.move))

OracleApplied(c, pos) ==
  pos.ok /\ \E text \in CallTexts(c) : OracleDid(c, pos, Decode(pos, text, decodeValidates))

\* the squares on which two boards differ
Differ(b1, b2) == {q \in Idx \X Idx : b1[q[1]][q[2]] # b2[q[1]][q[2]]}

C2_OracleApplied ==
  \A c \in Calls : c.out.ret => OracleApplied(c, CallPos(c))

\* a call has succeeded through the castling branch
C2_Witness ==
  \E c \in Calls : c.out.ret /\ c.out.path = "castle"

\* C3: a call with a row or column outside 0..7 returns false at the bounds check,
\* before any board cell is read, and changes nothing.
C3_OutOfRange ==
  \A c \in Calls :
    ~CallInRange(c) => ~c.out.ret /\ ~c.out.panic /\ c.out.path = "bounds" /\ NoChange(c)

\* engineMove has called MovePiece with a column past 7 and the call was rejected
C3_Witness ==
  \E c \in Calls : c.fromCol > 7 /\ c.fromRow \in Idx /\ ~c.out.ret /\ board = c.pre.board

\* C4: a call whose source square is Empty, and a call with from = to, returns false
\* and changes nothing, whatever the board and the turn.
C4_EmptyOrSame ==
  \A c \in Calls :
    (CallInRange(c)
     /\ (SourcePiece(c).Type = Empty \/ (c.fromRow = c.toRow /\ c.fromCol = c.toCol)))
    => ~c.out.ret /\ ~c.out.panic /\ NoChange(c)

\* a drop from an Empty square onto another square has been rejected
C4_Witness ==
  \E c \in Calls :
    /\ CallInRange(c)
    /\ SourcePiece(c).Type = Empty
    /\ <<c.fromRow, c.fromCol>> # <<c.toRow, c.toCol>>
    /\ ~c.out.ret
    /\ ev.handler = "dropPiece"

C7_TurnFlips ==
  ev.handler \in {"dropPiece", "engineMove"} =>
    /\ \A k \in DOMAIN ev.calls :
         /\ ev.calls[k].turn = (IF k = 1 THEN ev.turn0 ELSE ev.calls[k - 1].turnAfter)
         /\ ev.calls[k].turnAfter \in {Black, White}
         /\ (ev.calls[k].turnAfter # ev.calls[k].turn) = ev.calls[k].out.ret
    /\ turn = (IF ev.calls = <<>> THEN ev.turn0 ELSE ev.calls[Len(ev.calls)].turnAfter)
    /\ (~ev.selected /\ ev.handler = "dropPiece") => ev.calls = <<>>

\* a drop succeeded, the engine move it triggered failed, and turn has changed once
C7_Witness ==
  /\ ev.handler = "dropPiece"
  /\ Len(ev.calls) = 2
  /\ ev.calls[1].out.ret
  /\ ~ev.calls[2].out.ret
  /\ turn # ev.turn0

\* C8: after a call that returns true the en-passant target is the square one row
\* behind the destination (row + 1 for White, row - 1 for Black) when the piece on
\* the source was a Pawn that changed row by exactly 2 in its column, and (-1, -1)
\* otherwise; the handler leaves that value in the tracker.
C8_TargetRecomputed ==
  /\ \A c \in Calls :
       c.out.ret => <<c.out.enPassantRow, c.out.enPassantCol>> = TargetAfter(c)
  /\ (ev.calls # <<>> /\ ev.calls[Len(ev.calls)].out.ret)
     => <<enPassantRow, enPassantCol>> = TargetAfter(ev.calls[Len(ev.calls)])

\* a move that is no double push has succeeded while a target was set, and cleared it
C8_Witness ==
  \E c \in Calls :
    /\ c.out.ret
    /\ c.pre.enPassantRow # -1
    /\ TargetAfter(c) = <<-1, -1>>
    /\ enPassantRow = -1

\* C9: the en-passant target is (-1, -1) when a game starts: after reset and after a
\* game has been loaded, whatever was played before.
C9_TargetNoneAtStart ==
  ev.handler \in {"reset", "handleLoadGame"} => enPassantRow = -1 /\ enPassantCol = -1

\* C10: when a pawn moves diagonally onto an Empty square that is the tracked
\* en-passant target and the call returns true, the board differs from the board
\* before in exactly three squares: the source is Empty, the destination holds the
\* pawn, and the square behind the destination (row + 1 for White, row - 1 for
\* Black) is Empty.
C10_EnPassantThreeSquares ==
  \A c \in Calls :
    (/\ c.out.ret
     /\ SourcePiece(c).Type = Pawn
     /\ c.fromRow # c.toRow /\ c.fromCol # c.toCol
     /\ c.pre.board[c.toRow][c.toCol].Type = Empty
     /\ <<c.toRow, c.toCol>> = <<c.pre.enPassantRow, c.pre.enPassantCol>>)
    => /\ Differ(c.pre.board, c.out.board)
            = { <<c.fromRow, c.fromCol>>, <<c.toRow, c.toCol>>,
                <<IF SourcePiece(c).Color = White THEN c.toRow + 1 ELSE c.toRow - 1,
                  c.toCol>> }
       /\ c.out.board[c.fromRow][c.fromCol] = EmptyPiece
       /\ c.out.board[c.toRow][c.toCol] = SourcePiece(c)

\* the text of the square (row, col) as MovePiece writes it
SquareText(row, col) == <<FileChars[col + 1], Digit(8 - row)>>

\* the castling text for destination column 6 or 2 and the side to move t
CastlingText(toCol, t) ==
  SquareText(IF t = Black THEN 0 ELSE 7, 4) \o SquareText(IF t = Black THEN 0 ELSE 7, toCol)

\* call c is a King moved two columns along its row to column 6 or 2 whose literal
\* text the oracle's Decode has rejected
KingTwoColumns(c) ==
  /\ CallInRange(c)
  /\ CallPos(c).ok
  /\ SourcePiece(c).Type = King
  /\ c.fromRow = c.toRow
  /\ abs(c.fromCol - c.toCol) = 2
  /\ c.toCol \in {6, 2}
  /\ Decode(CallPos(c), MoveStr(c.fromRow, c.fromCol, c.toRow, c.toCol), decodeValidates).err

\* the oracle decodes text in pos and applies the move
Accepts(pos, text) ==
  /\ ~Decode(pos, text, decodeValidates).err
  /\ ~GameMove(pos, Decode(pos, text, decodeValidates).move).err

\* the position after the oracle has applied text in pos
After(pos, text) == GameMove(pos, Decode(pos, text, decodeValidates).move).pos

\* on board b the side t has castled towards column toCol: king and rook relocated
Castled(b, toCol, t) ==
  LET r == IF t = Black THEN 0 ELSE 7 IN
  /\ b[r][toCol] = Piece(t, King)
  /\ b[r][IF toCol = 6 THEN 5 ELSE 3] = Piece(t, Rook)
  /\ b[r][4] = EmptyPiece
  /\ b[r][IF toCol = 6 THEN 7 ELSE 0] = EmptyPiece

Count(b, col, t) == Cardinality({q \in Idx \X Idx : b[q[1]][q[2]] = Piece(col, t)})

\* call c moves a Pawn to row 0 or row 7
ToLastRow(c) == CallInRange(c) /\ SourcePiece(c).Type = Pawn /\ c.toRow \in {0, 7}

\* C12: the move text MovePiece builds carries the promotion suffix "q" exactly when
\* the moving piece is a Pawn and the destination row is 0 or 7; after such a
\* successful move the destination holds a Queen of the mover's colour, and no call
\* adds a Rook, Bishop, Knight or King to the board, nor a Queen otherwise.
C12_QueenPromotion ==
  \A c \in Calls :
    /\ CallInRange(c) =>
         PromoStr(SourcePiece(c), c.fromRow, c.fromCol, c.toRow, c.toCol)
           = MoveStr(c.fromRow, c.fromCol, c.toRow, c.toCol)
             \o (IF ToLastRow(c) THEN <<"q">> ELSE <<>>)
    /\ (c.out.ret /\ c.out.path # "castle") =>
         c.out.moves[Len(c.out.moves)]
           = MoveStr(c.fromRow, c.fromCol, c.toRow, c.toCol)
             \o (IF ToLastRow(c) THEN <<"q">> ELSE <<>>)
    /\ (c.out.ret /\ ToLastRow(c)) =>
         c.out.board[c.toRow][c.toCol] = Piece(SourcePiece(c).Color, Queen)
    /\ \A col \in {Black, White} :
         /\ \A t \in {King, Rook, Bishop, Knight} :
              Count(c.out.board, col, t) <= Count(c.pre.board, col, t)
         /\ Count(c.out.board, col, Queen)
              <= Count(c.pre.board, col, Queen)
                 + (IF c.out.ret /\ ToLastRow(c) /\ SourcePiece(c).Color = col THEN 1 ELSE 0)

\* a pawn has reached the last row and a Queen of its colour stands there, the text
\* logged ending in "q"
C12_Witness ==
  \E c \in Calls :
    /\ ToLastRow(c)
    /\ c.out.ret
    /\ board[c.toRow][c.toCol] = Piece(SourcePiece(c).Color, Queen)
    /\ Len(moves[Len(moves)]) = 5
    /\ moves[Len(moves)][5] = "q"

\* ---- the conversions of pkg/gui ----
\* fenStr is a string ToFEN has returned for board
Exported == fenStr # <<>> /\ tmpBoard.op \in {"none", "roundtrip"}

\* every Empty square of b has colour Undefined
EmptyUndefined(b) == \A i \in Idx, j \in Idx : b[i][j].Type = Empty => b[i][j].Color = Undefined

\* C13: for every board in which each Empty square has colour Undefined, and every
\* turn, NewChessBoardFromFEN(ToFEN(board, turn)) returns and equals board on all 64
\* squares, the standard start board included; the fields after the last rank do not
\* disturb the placement parsed.
C13_RoundTrip ==
  (tmpBoard.op = "roundtrip" /\ EmptyUndefined(board))
  => ~tmpBoard.panic /\ \A i \in Idx, j \in Idx : tmpBoard.board[i][j] = board[i][j]

\* the start board with Black to move and a target set has gone through ToFEN and
\* NewChessBoardFromFEN and has come back
C13_Witness ==
  /\ tmpBoard.op = "roundtrip"
  /\ board = NewChessBoard
  /\ turn = Black
  /\ enPassantRow = 5
  /\ tmpBoard.board = NewChessBoard

\* the text of the start position with White to move
StartFEN ==
  <<"r", "n", "b", "q", "k", "b", "n", "r", "/", "p", "p", "p", "p", "p", "p", "p", "p",
    "/", "8", "/", "8", "/", "8", "/", "8", "/", "P", "P", "P", "P", "P", "P", "P", "P",
    "/", "R", "N", "B", "Q", "K", "B", "N", "R", " ", "w", " ", "K", "Q", "k", "q", " ",
    "-", " ", "0", " ", "1">>

\* the squares one rank text describes, read as the FEN format defines it, against
\* row i of board b: a digit stands for that many Empty squares, a letter for a piece
\* of that type, upper case for White
RankDescribes(r, b, i) ==
  /\ Len(FenRank(r, 1)) = 8
  /\ \A j \in Idx :
       FenRank(r, 1)[j + 1]
         = (IF b[i][j].Type = Empty THEN NoPiece
            ELSE OPiece(IF b[i][j].Color = White THEN "w" ELSE "b",
                        Upper(TypeLetter(b[i][j].Type))))

\* C14: the placement field ToFEN writes has exactly 8 ranks separated by 7 "/", row 0
\* first; in each rank digits and letters describe 8 squares, no two digits are
\* adjacent and letters are upper case exactly for White pieces; for the start board
\* with turn White and no target the string is
\* "rnbqkbnr/pppppppp/8/8/8/8/PPPPPPPP/RNBQKBNR w KQkq - 0 1".
C14_PlacementField ==
  Exported =>
    LET ranks == Split(Split(fenStr, " ")[1], "/") IN
    /\ Len(ranks) = 8
    /\ Len(SelectSeq(Split(fenStr, " ")[1], LAMBDA ch : ch = "/")) = 7
    /\ \A i \in Idx :
         /\ RankDescribes(ranks[i + 1], board, i)
         /\ \A k \in 1..(Len(ranks[i + 1]) - 1) :
              ~(IndexOf(DigitChars, ranks[i + 1][k]) > 0
                /\ IndexOf(DigitChars, ranks[i + 1][k + 1]) > 0)
    /\ (board = NewChessBoard /\ turn = White /\ enPassantRow = -1) => fenStr = StartFEN

\* a board whose first and last rows differ and whose second row mixes runs of Empty
\* squares with pieces of both colours has been exported
C14_Witness ==
  /\ Exported
  /\ board[1] = MixedRow
  /\ board[0] = NewChessBoard[0]
  /\ board[7] = EmptyRow
  /\ Split(Split(fenStr, " ")[1], "/")[2] = <<"1", "P", "2", "p", "n", "1", "Q">>

\* the castling letters the occupancy of the home squares of b allows, in the order KQkq
CastleLetters(b) ==
  SelectSeq(<<"K", "Q", "k", "q">>,
            LAMBDA ch :
              CASE ch = "K" -> b[7][4] = Piece(White, King) /\ b[7][7] = Piece(White, Rook)
                [] ch = "Q" -> b[7][4] = Piece(White, King) /\ b[7][0] = Piece(White, Rook)
                [] ch = "k" -> b[0][4] = Piece(Black, King) /\ b[0][7] = Piece(Black, Rook)
                [] ch = "q" -> b[0][4] = Piece(Black, King) /\ b[0][0] = Piece(Black, Rook))

\* C15: the castling field of ToFEN holds "K" iff a White King is on (7,4) and a White
\* Rook on (7,7), "Q" iff a White King is on (7,4) and a White Rook on (7,0), "k" iff
\* a Black King is on (0,4) and a Black Rook on (0,7), "q" iff a Black King is on
\* (0,4) and a Black Rook on (0,0), in the order KQkq, and is "-" iff none holds: it
\* is a function of the current occupancy alone.
C15_CastlingField ==
  Exported =>
    Split(fenStr, " ")[3]
      = (IF CastleLetters(board) = <<>> THEN <<"-">> ELSE CastleLetters(board))

\* a board with the White king-side and the Black queen-side pieces at home, and a
\* knight of the other colour on the last row, has been exported with the field "Kq"
C15_Witness ==
  /\ Exported
  /\ board[7][0] = EmptyPiece
  /\ board[0][6] = Piece(White, Knight)
  /\ Split(fenStr, " ")[3] = <<"K", "q">>

\* Color = Undefined if and only if Type = Empty on every square of b
ColourIffType(b) ==
  \A i \in Idx, j \in Idx : (b[i][j].Color = Undefined) <=> (b[i][j].Type = Empty)

\* C16: every square of the board NewChessBoard makes, and of every board
\* NewChessBoardFromFEN makes of any string, has Color = Undefined if and only if
\* Type = Empty.
C16_ColourIffType ==
  /\ ColourIffType(NewChessBoard)
  /\ (tmpBoard.op # "none" /\ ~tmpBoard.panic) => ColourIffType(tmpBoard.board)

\* C17: NewChessBoardFromFEN returns a board for every string; it never indexes
\* outside the 8x8 array, whatever digits, rank lengths, rank counts and characters
\* the string holds.
C17_NeverFails == tmpBoard.op # "none" => ~tmpBoard.panic

\* ---- the history package ----
\* the goroutines between mu.Lock() and mu.Unlock()
InCritical == {t \in Threads : pc[t] \in {"body", "write", "copy", "unlock"}}

\* no goroutine is inside a call
Quiescent == \A t \in Threads : pc[t] = "idle"

\* goroutine t has a GetHistory result in hand
Got(t) == local[t].op = "GetHistory" /\ local[t].returned

\* C18: GetHistory returns exactly the tokens passed to AddMove since the most recent
\* ClearHistory (or since start), in the order they were appended, none lost,
\* duplicated or reordered, and the empty sequence after a ClearHistory; between
\* calls the stored slice holds exactly those tokens.
C18_HistoryIsTheAppends ==
  /\ \A t \in Threads :
       (Got(t) /\ ~local[t].overwrote) => local[t].result = local[t].atCopy
  /\ \A t \in Threads :
       (pc[t] = "unlock" /\ local[t].op = "GetHistory")
       => Contents(heap, local[t].history) = logged
  /\ Quiescent => Contents(heap, movesSlice) = logged

\* GetHistory has returned both tokens in the order of their AddMove calls, the second
\* appended in place after the array had grown
C18_Witness ==
  \E t \in Threads :
    /\ Got(t)
    /\ local[t].result = << <<"e", "2", "e", "4">>, <<"e", "7", "e", "5">> >>
    /\ logged = local[t].result
    /\ movesSlice.cap = 2

\* C19: the sequence GetHistory returns is an independent snapshot: AddMove and
\* ClearHistory calls made later never change it, and a caller that overwrites its
\* elements never changes the stored history nor another caller's sequence.
C19_IndependentSnapshot ==
  \A t \in Threads :
    /\ Got(t) => Contents(heap, local[t].history) = local[t].result
    /\ Got(t) => local[t].history.arr # movesSlice.arr
    /\ local[t].overwrote => local[t].storedAfter = local[t].storedBefore

\* a caller has overwritten the first element of its sequence while the history held
\* tokens, a token was appended afterwards, and the history still starts with the
\* token appended first
C19_Witness ==
  \E t \in Threads :
    /\ local[t].overwrote
    /\ local[t].result = <<Scribble>>
    /\ Len(logged) = 2
    /\ Quiescent
    /\ Contents(heap, movesSlice) = logged

\* C20: under any interleaving of goroutines calling AddMove, GetHistory and
\* ClearHistory the calls exclude each other and are linearizable: the mutex is held
\* by the one goroutine inside a call, every append is retained (the stored slice
\* is the sequence of the writes whenever the mutex is free), and every GetHistory
\* result is the history as it stood at one instant during the call.
C20_Linearizable ==
  /\ Cardinality(InCritical) <= 1
  /\ \A t \in InCritical : mu = t
  /\ mu = 0 => (InCritical = {} /\ Contents(heap, movesSlice) = logged)
  /\ \A t \in Threads :
       (pc[t] = "unlock" /\ local[t].op = "GetHistory")
       => Contents(heap, local[t].history) \in local[t].seen

\* one goroutine is inside AddMove about to write while the other waits at mu.Lock()
\* in a GetHistory that has already seen two histories
C20_Witness ==
  \E t \in Threads, u \in Threads :
    /\ pc[t] = "write"
    /\ pc[u] = "lock"
    /\ local[u].op = "GetHistory"
    /\ Cardinality(local[u].seen) = 2

\* ---- reset, the replay of the history, the en-passant field ----
\* C21: after reset, whatever moves preceded it, the history is empty, the board is
\* the standard starting placement on all 64 squares and turn is White.
C21_ResetRestoresStart ==
  ev.handler = "reset" =>
    /\ moves = <<>>
    /\ \A i \in Idx, j \in Idx : board[i][j] = NewChessBoard[i][j]
    /\ turn = White

\* reset has run with Black to move after two moves or more
C21_Witness ==
  /\ ev.handler = "reset"
  /\ ev.turn0 = Black
  /\ played >= 2
  /\ moves = <<>>
  /\ board = NewChessBoard

\* replaying hist from the standard starting position decodes and plays every token
\* and ends on board b
Reproduces(hist, b) ==
  /\ replayHistory(StartPos, hist, 1, decodeValidates).failed = 0
  /\ updateBoardFromGame(replayHistory(StartPos, hist, 1, decodeValidates).pos) = b

\* C24: from program start or a reset, with turns alternating, every successful
\* MovePiece call keeps the history replayable: replaying the stored tokens in order
\* from the standard starting position through the oracle's decode and apply
\* decodes every token and reproduces the board on all 64 squares.
C24_ReplayReproducesBoard ==
  \A c \in Calls :
    (/\ c.out.ret
     /\ c.turn = (IF Len(c.pre.moves) % 2 = 0 THEN White ELSE Black)
     /\ Reproduces(c.pre.moves, c.pre.board))
    => Reproduces(c.out.moves, c.out.board)

\* C28: the en-passant field of ToFEN is the tracked target as file letter
\* ('a' + col) and rank digit (8 - row) exactly when both coordinates are in 0..7,
\* and "-" otherwise; the string always ends with the counters " 0 1".
C28_EnPassantField ==
  Exported =>
    /\ Len(Split(fenStr, " ")) = 6
    /\ Split(fenStr, " ")[4]
         = (IF enPassantRow \in Idx /\ enPassantCol \in Idx
            THEN <<FileChars[enPassantCol + 1], DigitChars[9 - enPassantRow]>>
            ELSE <<"-">>)
    /\ SubSeq(fenStr, Len(fenStr) - 3, Len(fenStr)) = <<" ", "0", " ", "1">>

\* a board has been exported with the target (2, 3) written as "d6"
C28_Witness ==
  /\ Exported
  /\ enPassantRow = 2
  /\ enPassantCol = 3
  /\ Split(fenStr, " ")[4] = <<"d", "6">>

\* ---- IsInCheck ----
\* IsInCheck has answered for the test position
Detected == checked # NotChecked

\* the squares holding a piece of the side not to move
Opposing == {q \in Squares : sanGame.board[q].c = Other(sanGame.turn)}

\* the squares holding a king of the side to move
OwnKing == {q \in Squares : sanGame.board[q] = OPiece(sanGame.turn, "K")}

TheKing == CHOOSE k \in OwnKing : TRUE

\* one king of the side to move, and every opposing piece of a type in ts
Facing(ts) ==
  /\ Detected
  /\ Cardinality(OwnKing) = 1
  /\ Opposing # {}
  /\ \A q \in Opposing : sanGame.board[q].t \in ts

FileDistance(q, k) == abs(FileOf(k) - FileOf(q))

RankDistance(q, k) == abs(RankOf(k) - RankOf(q))

\* k is diagonally forward of the pawn of colour c on q
DiagonallyForward(q, k, c) ==
  FileDistance(q, k) = 1 /\ RankOf(k) - RankOf(q) = (IF c = "w" THEN 1 ELSE -1)

\* C25: facing pawns only, IsInCheck reports check exactly when the king stands
\* diagonally forward of one of them, at file distance 1: one rank towards rank 8
\* from a White pawn, one rank towards rank 1 from a Black pawn.
C25_PawnCheck ==
  Facing({"P"}) =>
    (checked.result <=> \E q \in Opposing : DiagonallyForward(q, TheKing, Other(sanGame.turn)))

\* the piece of type t on q and the square k share a line that t moves along
SameLine(t, q, k) ==
  \/ t \in {"B", "Q"} /\ FileDistance(q, k) = RankDistance(q, k) /\ q # k
  \/ t \in {"R", "Q"} /\ (FileOf(q) = FileOf(k)) # (RankOf(q) = RankOf(k))

\* every square strictly between q and k on their common line is empty
BetweenEmpty(q, k) ==
  \A i \in 1..(Max(FileDistance(q, k), RankDistance(q, k)) - 1) :
    sanGame.board[SquareAt(FileOf(q) + i * sign(FileOf(k) - FileOf(q)), RankOf(q) + i * sign(RankOf(k) - RankOf(q)))] = NoPiece

\* C26: facing bishops, rooks and queens only, IsInCheck reports check exactly when
\* one of them shares a diagonal (bishop, queen) or a rank or file (rook, queen)
\* with the king and every square strictly between the two is empty; the walk
\* towards the king ends after at most seven steps.
C26_SliderCheck ==
  Facing({"B", "R", "Q"}) =>
    /\ checked.result <=>
         \E q \in Opposing : SameLine(sanGame.board[q].t, q, TheKing) /\ BetweenEmpty(q, TheKing)
    /\ \A q \in Opposing : canPieceReach(sanGame.board, q, TheKing, sanGame.board[q].t).steps <= 7

\* a queen on the king's line with a piece in between, and no check reported
C26_Witness ==
  /\ Facing({"Q"})
  /\ \E q \in Opposing : SameLine("Q", q, TheKing) /\ ~BetweenEmpty(q, TheKing)
  /\ ~checked.result

\* C29: facing knights only, IsInCheck reports check exactly when the file and
\* rank distances to the king are 1 and 2 in some order; facing a king only,
\* exactly when both distances are at most 1.  A square reached only by wrapping
\* round the board edge never counts.
C29_KnightAndKingCheck ==
  /\ Facing({"N"}) =>
       (checked.result <=>
          \E q \in Opposing : {FileDistance(q, TheKing), RankDistance(q, TheKing)} = {1, 2})
  /\ Facing({"K"}) =>
       (checked.result <=>
          \E q \in Opposing : FileDistance(q, TheKing) <= 1 /\ RankDistance(q, TheKing) <= 1)

\* the king on h5 and a knight on b5, six squares back in the index, and no check
C29_Witness ==
  /\ Facing({"N"})
  /\ TheKing = 39
  /\ Opposing = {33}
  /\ ~checked.result

\* the opposing piece on q passes the test IsInCheck makes for its type
Confirmed(q) == q \in Opposing /\ pieceChecks(sanGame.board, q, TheKing, Other(sanGame.turn))

\* C30: IsInCheck answers false when the side to move has no king, and false in
\* the starting position; it answers true at the first opposing piece, in the order
\* of the squares from a1, that passes the test for its type, and false only after
\* every opposing piece has failed it.
C30_FirstAttackerDecides ==
  Detected =>
    /\ OwnKing = {} => ~checked.result
    /\ sanGame.board = StartPos.board => ~checked.result
    /\ checked.result =>
         Confirmed(checked.at) /\ \A q \in 0..(checked.at - 1) : ~Confirmed(q)
    /\ (OwnKing # {} /\ ~checked.result) =>
         checked.at = 64 /\ \A q \in Squares : ~Confirmed(q)

\* two opposing pieces pass the test, and the answer came at the first of them
C30_Witness ==
  /\ Detected
  /\ checked.result
  /\ checked.at < 56
  /\ Confirmed(56)

\* ---- GetMoveHistorySAN ----
\* GetMoveHistorySAN has returned the lines of the history
Rendered == lines.called

\* the text of the half made from token i
HalfText(i) == lines.halves[i].san \o lines.halves[i].mark

\* the game before token i was read
Before(i) == IF i = 1 THEN StartPos ELSE lines.halves[i - 1].pos

\* C22: n tokens give ceil(n/2) lines; line k is "k. <white> <black>" made from the
\* tokens 2k-1 and 2k of the history counted from 1, or "k. <white>" when the
\* history ends with White's token; no token gives no line.  e2e4 e7e5 gives
\* "1. e4 e5" and the token invalid gives "1. invalid".
C22_TwoTokensPerLine ==
  Rendered =>
    /\ Len(lines.text) = (Len(moves) + 1) \div 2
    /\ Len(lines.halves) = Len(moves)
    /\ \A i \in 1..Len(moves) : lines.halves[i].raw = moves[i]
    /\ \A k \in 1..Len(lines.text) :
         lines.text[k] = <<Digit(k), ".", " ">> \o HalfText(2 * k - 1)
                         \o (IF 2 * k <= Len(moves) THEN <<" ">> \o HalfText(2 * k) ELSE <<>>)
    /\ moves = << <<"e", "2", "e", "4">>, <<"e", "7", "e", "5">> >>
         => lines.text = << <<"1", ".", " ", "e", "4", " ", "e", "5">> >>
    /\ moves = << <<"i", "n", "v", "a", "l", "i", "d">> >>
         => lines.text = << <<"1", ".", " ", "i", "n", "v", "a", "l", "i", "d">> >>

\* three tokens, two lines, the second with White's half only
C22_Witness ==
  /\ Rendered
  /\ Len(moves) = 3
  /\ lines.text = << <<"1", ".", " ", "e", "4", " ", "e", "5">>, <<"2", ".", " ", "f", "3">> >>

\* C23: every token is handed to Decode on the game as it stands, whatever became
\* of the tokens before it; a token Decode rejects is rendered as its own text,
\* without a mark, and leaves the game as it was; only a decoded token moves the
\* game on.
C23_UndecodableTokenIsRaw ==
  Rendered =>
    /\ Len(lines.halves) = Len(moves)
    /\ \A i \in 1..Len(moves) :
         /\ lines.halves[i].decoded = ~Decode(Before(i), moves[i], decodeValidates).err
         /\ ~lines.halves[i].decoded => HalfText(i) = moves[i] /\ lines.halves[i].pos = Before(i)
         /\ lines.halves[i].pos # Before(i) => lines.halves[i].decoded

\* the token invalid, then e2e4 decoded and played from the starting position
C23_Witness ==
  /\ Rendered
  /\ lines.text = << <<"1", ".", " ", "i", "n", "v", "a", "l", "i", "d", " ", "e", "4">> >>
  /\ lines.halves[2].pos.board[28] = OPiece("w", "P")

\* C27: the mark of a decoded token is # when the game after game.Move is
\* checkmate, else + when IsInCheck reports check in that game, else nothing; the
\* mark is at most one character, and it is judged on the game after the move.
C27_CheckAndMateMarks ==
  Rendered =>
    \A i \in 1..Len(moves) :
      lines.halves[i].decoded =>
        /\ lines.halves[i].pos = GameMove(Before(i), DecodedMove(Before(i), moves[i])).pos
        /\ lines.halves[i].mark \in {<<>>, <<"+">>, <<"#">>}
        /\ lines.halves[i].mark = <<"#">> <=> Checkmate(lines.halves[i].pos)
        /\ lines.halves[i].mark = <<"+">> <=>
             (~Checkmate(lines.halves[i].pos) /\ IsInCheck(lines.halves[i].pos).result)

\* the shortest mate: the queen's move to h4 is marked #
C27_Witness ==
  /\ Rendered
  /\ Len(lines.text) = 2
  /\ lines.text[2] = <<"2", ".", " ", "g", "4", " ", "Q", "h", "4", "#">>

\* ---- NewChessBoardFromFEN on short strings ----
\* the columns of a rank to which its text gives a piece letter
RECURSIVE RecognisedCols(_, _, _)
RecognisedCols(row, k, col) ==
  IF k > Len(row) \/ col >= 8 THEN {}
  ELSE IF IndexOf(DigitChars, row[k]) \in 2..9
       THEN RecognisedCols(row, k + 1, col + IndexOf(DigitChars, row[k]) - 1)
  ELSE IF row[k] \in {"k", "q", "r", "b", "n", "p", "K", "Q", "R", "B", "N", "P"}
       THEN {col} \cup RecognisedCols(row, k + 1, col + 1)
  ELSE RecognisedCols(row, k + 1, col + 1)

\* C31: on the board NewChessBoardFromFEN returns, every square the string gives no
\* piece letter is Empty: the square of an unrecognised character, the squares a
\* short rank does not reach, and the squares of the ranks the string does not have.
C31_UnassignedIsEmpty ==
  (tmpBoard.op = "text" /\ ~tmpBoard.panic) =>
    \A i \in Idx, j \in Idx :
      (i >= Len(Split(fenStr, "/")) \/ j \notin RecognisedCols(Split(fenStr, "/")[i + 1], 1, 0))
        => tmpBoard.board[i][j].Type = Empty

\* ---- engineMove ----
\* the first four bytes of the reply are file, rank, file, rank
FourSquareBytes(reply) ==
  /\ Len(reply) >= 4
  /\ reply[1] \in {"a", "b", "c", "d", "e", "f", "g", "h"}
  /\ reply[2] \in {"1", "2", "3", "4", "5", "6", "7", "8"}
  /\ reply[3] \in {"a", "b", "c", "d", "e", "f", "g", "h"}
  /\ reply[4] \in {"1", "2", "3", "4", "5", "6", "7", "8"}

\* the key bound to engineMove has been pressed and the handler has run
EngineStep == ev.handler = "none" /\ ev'.handler = "engineMove"

\* C32: a step of engineMove on a reply whose first four bytes are not file, rank,
\* file, rank leaves board, history and turn as they were: a reply of fewer than
\* four bytes makes no MovePiece call, any other makes one call with a coordinate
\* outside 0..7, the byte difference taken modulo 256, which MovePiece rejects; a
\* fifth byte changes nothing of what the first four do.
C32_EngineReplyBytes ==
  [][EngineStep =>
       /\ ~FourSquareBytes(ev'.reply) => UNCHANGED <<board, moves, turn>>
       /\ Len(ev'.reply) < 4 => ev'.calls = <<>>
       /\ Len(ev'.reply) >= 4 =>
            /\ Len(ev'.calls) = 1
            /\ ev'.calls[1].fromCol = (ByteOf(ev'.reply[1]) - 97) % 256
            /\ ev'.calls[1].fromRow = 8 - ((ByteOf(ev'.reply[2]) - 48) % 256)
            /\ ev'.calls[1].toCol = (ByteOf(ev'.reply[3]) - 97) % 256
            /\ ev'.calls[1].toRow = 8 - ((ByteOf(ev'.reply[4]) - 48) % 256)
            /\ CallInRange(ev'.calls[1]) <=> FourSquareBytes(ev'.reply)
            /\ ~FourSquareBytes(ev'.reply) => ~ev'.calls[1].out.ret
       /\ Len(ev'.reply) > 4 =>
            /\ board' = engineMoveRun(board, moves, enPassantRow, enPassantCol, turn, decodeValidates, SubSeq(ev'.reply, 1, 4)).board
            /\ moves' = engineMoveRun(board, moves, enPassantRow, enPassantCol, turn, decodeValidates, SubSeq(ev'.reply, 1, 4)).moves
            /\ turn' = engineMoveRun(board, moves, enPassantRow, enPassantCol, turn, decodeValidates, SubSeq(ev'.reply, 1, 4)).turn]_vars

\* the reply 2e4e: column '2' - 'a' wraps to 209, the call is rejected, the board stays
C32_Witness ==
  /\ ev.handler = "engineMove"
  /\ ev.reply = <<"2", "e", "4", "e">>
  /\ Len(ev.calls) = 1
  /\ ev.calls[1].fromCol = 209
  /\ ~ev.calls[1].out.ret
  /\ board = ev.calls[1].pre.board

\* ---- the game state across handlers ----
\* C35: in every state reached by dropPiece, engineMove, reset and loading a game,
\* turn is White exactly when the history holds an even number of tokens.
C35_TurnMatchesHistory == (turn = White) <=> (Len(moves) % 2 = 0)

\* C37: the en-passant target is (-1, -1) or a square of row 2 or row 5 with its
\* column in 0..7, and the square of the pawn an en-passant capture removes, one
\* row below the target for White and one row above it for Black, is on the board.
C37_TargetOnBoard ==
  \/ enPassantRow = -1 /\ enPassantCol = -1
  \/ /\ enPassantRow \in {2, 5}
     /\ enPassantCol \in Idx
     /\ enPassantRow + 1 \in Idx
     /\ enPassantRow - 1 \in Idx

\* a White pawn has gone two squares and the target is the square behind it
C37_Witness ==
  /\ enPassantRow = 5
  /\ enPassantCol = 4
  /\ board[4][4] = Piece(White, Pawn)

\* ---- the history index ----
PrevStep == ev.handler = "none" /\ ev'.handler = "historyPrev"

NextStep == ev.handler = "none" /\ ev'.handler = "historyNext"

\* C33: with an empty history historyPrev and historyNext change nothing.  With
\* tokens in it, historyPrev goes from the live view (-1) to the last index, else
\* one index down but not below 0; historyNext does nothing in the live view, else
\* goes one index up, and back to the live view once past the last index.
C33_HistoryNavigation ==
  [][/\ PrevStep =>
          /\ UNCHANGED <<board, turn, moves>>
          /\ moves = <<>> => historyIndex' = historyIndex
          /\ (moves # <<>> /\ historyIndex = -1) => historyIndex' = Len(moves) - 1
          /\ (moves # <<>> /\ historyIndex > 0) => historyIndex' = historyIndex - 1
          /\ (moves # <<>> /\ historyIndex = 0) => historyIndex' = 0
     /\ NextStep =>
          /\ UNCHANGED <<board, turn, moves>>
          /\ moves = <<>> => historyIndex' = historyIndex
          /\ (moves # <<>> /\ historyIndex = -1) => historyIndex' = -1
          /\ (moves # <<>> /\ historyIndex >= 0 /\ historyIndex + 1 < Len(moves))
               => historyIndex' = historyIndex + 1
          /\ (moves # <<>> /\ historyIndex >= 0 /\ historyIndex + 1 >= Len(moves))
               => historyIndex' = -1]_vars

\* historyNext has gone past the last of three tokens and the view is live again
C33_Witness ==
  /\ ev.handler = "historyNext"
  /\ Len(moves) = 3
  /\ historyIndex = -1
  /\ played = 3

\* C36: in every state reached by moves, historyPrev, historyNext, reset and loading
\* a game, historyIndex is -1 or an index of the history: 0 <= historyIndex < the
\* number of tokens.
C36_IndexInHistory == historyIndex = -1 \/ (0 <= historyIndex /\ historyIndex < Len(moves))

\* ---- the cursor ----
\* C34: Row and Col of the cursor are in 0..7 after any sequence of moveLeft,
\* moveRight, moveUp and moveDown in either orientation; a Cursor.Move whose step
\* would leave the board on one axis leaves that axis as it is and still moves on
\* the other.
C34_CursorOnBoard ==
  /\ cursor.Row \in Idx
  /\ cursor.Col \in Idx
  /\ \A dRow \in -1..1, dCol \in -1..1 :
       /\ CursorMove(cursor, dRow, dCol).Row = (IF cursor.Row + dRow \in Idx THEN cursor.Row + dRow ELSE cursor.Row)
       /\ CursorMove(cursor, dRow, dCol).Col = (IF cursor.Col + dCol \in Idx THEN cursor.Col + dCol ELSE cursor.Col)

\* the cursor has been walked to the far corner on the flipped board
C34_Witness == cursor.Row = 7 /\ cursor.Col = 7 /\ BoardFlipped

\* ---- the websocket pumps ----
\* one of the two pumps of client c has left its loop
Stopped(c) == readPump[c] \in {"closeSend", "closeConn", "done"} \/ writePump[c] \in {"closeConn", "done"}

BothDone(c) == readPump[c] = "done" /\ writePump[c] = "done"

\* C38: for each client Send is closed once, by ReadPump after its read failed, and
\* not touched afterwards: no second close and no message put on it; once either
\* pump has left its loop, both end.
C38_PumpsShutDown ==
  /\ [](\A c \in Clients :
          /\ Send[c].closes <= 1
          /\ Send[c].closed <=> readPump[c] \in {"closeConn", "done"}
          /\ Send[c].closed => Send[c].buf = <<>>
          /\ writePump[c] \in {"closeConn", "done"} => Send[c].closed)
  /\ \A c \in Clients : Stopped(c) ~> BothDone(c)

\* both clients have been served and both pumps of each have ended
C38_Witness ==
  \A c \in Clients : BothDone(c) /\ Send[c].closes = 1 /\ Conn[c] = "closed"

====
